---------------------------- MODULE Spec2Model ----------------------------
(***************************************************************************)
(* LightBot research core (src/src/develop/research): the simulation       *)
(* engine, the program executor, the flat solvers (BFS, IDS) and the       *)
(* procedure solvers (ProcedureSolver, OptimizedProcedureSolver,           *)
(* FastProcedureSolver, ResumableProcedureSolver).                         *)
(*                                                                         *)
(* Python values are modelled as follows: a list or tuple of instructions  *)
(* is a sequence of the IntEnum values 0..6, a Program is a record         *)
(* [main, proc1, proc2], an Optional is a tuple of length 0 or 1, an engine is a record  *)
(* of its mutable fields, and range(a, b) loops are explicit indices.      *)
(***************************************************************************)
EXTENDS Integers, Sequences, FiniteSets, TLC

(***************************************************************************)
(* lightbot/instructions.py: class Instruction(IntEnum)                    *)
(***************************************************************************)
WALK == 0
JUMP == 1
LIGHT == 2
TURN_LEFT == 3
TURN_RIGHT == 4
PROC1 == 5
PROC2 == 6

\* Optional[T]: None is the empty tuple and a value v is the 1-tuple Some(v).
None == <<>>

Some(v) == <<v>>

(***************************************************************************)
(* lightbot/levels.py is not part of the source tree; its names are        *)
(* modelled from their uses in engine.py and the tests (DIR_SE = 0         *)
(* decreases y, two left turns from SE face NW which increases y).         *)
(***************************************************************************)
TILE_BASIC == "b"
TILE_LIGHT == "l"
TILE_ELEVATOR == "e"

DIRECTION_DELTAS == <<  <<0, -1>>, <<1, 0>>, <<0, 1>>, <<-1, 0>>  >>

\* A tile of a level file: height and kind.
T(h, t) == [h |-> h, t |-> t]

(***************************************************************************)
(* The levels the model is run on, in the file format of LEVELS: map is a  *)
(* list of rows (row 0 first), each a list of tiles; position is (x, y)    *)
(* in engine coordinates; direction is 0..3.                               *)
(*   1 OneStep    a light one WALK ahead of the bot                        *)
(*   2 Corridor3  three lights on equal-height tiles straight ahead        *)
(*   3 Corridor2  two lights straight ahead                                *)
(*   4 JumpUp     a light on a tile one higher, behind a plain tile        *)
(*   5 Elevator   the bot starts on an elevator; the light is two higher   *)
(*   6 Walled     the light is three higher than every neighbour: no       *)
(*                program reaches it                                       *)
(*   7 TurnLight  the light is one turn and one WALK away                   *)
(*   8 NoLight    a level without any light tile                           *)
(*   9 Corridor4  four lights on equal-height tiles straight ahead         *)
(*  10 Playground a 2x2 grid for the engine alone: the bot starts on a     *)
(*                plain tile of height 1 facing an elevator of height 0;   *)
(*                behind it a light of height 2, and a light of height 4   *)
(*                next to both                                             *)
(***************************************************************************)
LEVELS ==
  << [map |-> << <<T(1, "b")>>, <<T(1, "l")>> >>,
      position |-> <<0, 1>>, direction |-> 0],
     [map |-> << <<T(1, "b")>>, <<T(1, "l")>>, <<T(1, "l")>>, <<T(1, "l")>> >>,
      position |-> <<0, 3>>, direction |-> 0],
     [map |-> << <<T(1, "b")>>, <<T(1, "l")>>, <<T(1, "l")>> >>,
      position |-> <<0, 2>>, direction |-> 0],
     [map |-> << <<T(1, "b")>>, <<T(2, "l")>> >>,
      position |-> <<0, 1>>, direction |-> 0],
     [map |-> << <<T(0, "e")>>, <<T(2, "l")>> >>,
      position |-> <<0, 1>>, direction |-> 0],
     [map |-> << <<T(1, "b")>>, <<T(4, "l")>> >>,
      position |-> <<0, 1>>, direction |-> 0],
     [map |-> << <<T(1, "l"), T(1, "b")>> >>,
      position |-> <<1, 0>>, direction |-> 0],
     [map |-> << <<T(1, "b")>>, <<T(1, "b")>> >>,
      position |-> <<0, 1>>, direction |-> 0],
     [map |-> << <<T(1, "b")>>, <<T(1, "l")>>, <<T(1, "l")>>, <<T(1, "l")>>,
                 <<T(1, "l")>> >>,
      position |-> <<0, 4>>, direction |-> 0],
     [map |-> << <<T(2, "l"), T(4, "l")>>, <<T(1, "b"), T(0, "e")>> >>,
      position |-> <<0, 0>>, direction |-> 1] >>

\* The levels the solvers are run on.
LevelIds == 1..9

(***************************************************************************)
(* lightbot/engine.py: class LightBotEngine.  An engine value is the       *)
(* record of its mutable fields; the level it was built from is passed     *)
(* beside it where the code reads self.level, map_width or map_height.     *)
(***************************************************************************)
MapHeight(lv) == Len(lv.map)

MapWidth(lv) == IF Len(lv.map) > 0 THEN Len(lv.map[1]) ELSE 0

Cells(lv) == (0..(MapWidth(lv) - 1)) \X (0..(MapHeight(lv) - 1))

\* light_positions: the cells whose tile kind is TILE_LIGHT.
LightPositions(lv) ==
  {c \in Cells(lv) : lv.map[MapHeight(lv) - c[2]][c[1] + 1].t = TILE_LIGHT}

\* elevator_positions: the cells whose tile kind is TILE_ELEVATOR.
ElevatorPositions(lv) ==
  {c \in Cells(lv) : lv.map[MapHeight(lv) - c[2]][c[1] + 1].t = TILE_ELEVATOR}

\* _init_from_level: map_data[j][num_rows - i - 1] = file_map[i][j].
InitFromLevel(lv) ==
  LET map_data == [c \in Cells(lv) |-> lv.map[MapHeight(lv) - c[2]][c[1] + 1]]
  IN [bot_x |-> lv.position[1],
      bot_y |-> lv.position[2],
      bot_dir |-> lv.direction,
      map_data |-> map_data,
      lights_on |-> {},
      elevator_heights |-> [c \in ElevatorPositions(lv) |-> map_data[c].h]]

\* A reset that leaves the engine as it is.
ResetKeep(lv, e) == e

\* reset(): re-runs _init_from_level.
Reset(lv, e) == InitFromLevel(lv)

\* clone(): a deep copy; values are immutable here, so the copy is the value.
Clone(e) ==
  [bot_x |-> e.bot_x, bot_y |-> e.bot_y, bot_dir |-> e.bot_dir,
   map_data |-> e.map_data, lights_on |-> e.lights_on,
   elevator_heights |-> e.elevator_heights]

GetCurrentHeight(e) == e.map_data[<<e.bot_x, e.bot_y>>].h

IsValidPosition(lv, x, y) ==
  0 <= x /\ x < MapWidth(lv) /\ 0 <= y /\ y < MapHeight(lv)

GetTileHeight(lv, e, x, y) ==
  IF IsValidPosition(lv, x, y) THEN e.map_data[<<x, y>>].h ELSE -1

GetTileType(lv, e, x, y) ==
  IF IsValidPosition(lv, x, y) THEN e.map_data[<<x, y>>].t ELSE ""

GetTargetPosition(e) ==
  <<e.bot_x + DIRECTION_DELTAS[e.bot_dir + 1][1],
    e.bot_y + DIRECTION_DELTAS[e.bot_dir + 1][2]>>

\* The result of one step: the engine after it, the value returned, and
\* whether the call raised instead of returning.
Ret(e, r) == [eng |-> e, ret |-> r, raised |-> FALSE]

\* A walk that also steps down onto a lower tile.
EngWalkDownhill(lv, e) ==
  LET t == GetTargetPosition(e)
  IN IF ~IsValidPosition(lv, t[1], t[2]) THEN Ret(e, FALSE)
     ELSE IF GetCurrentHeight(e) >= GetTileHeight(lv, e, t[1], t[2])
          THEN Ret([e EXCEPT !.bot_x = t[1], !.bot_y = t[2]], TRUE)
          ELSE Ret(e, FALSE)

EngWalk(lv, e) ==
  LET t == GetTargetPosition(e)
  IN IF ~IsValidPosition(lv, t[1], t[2]) THEN Ret(e, FALSE)
     ELSE IF GetCurrentHeight(e) = GetTileHeight(lv, e, t[1], t[2])
          THEN Ret([e EXCEPT !.bot_x = t[1], !.bot_y = t[2]], TRUE)
          ELSE Ret(e, FALSE)

\* A jump that does not ask whether the faced cell is in the grid; the
\* height of a cell outside it reads as -1.
EngJumpUnchecked(lv, e) ==
  LET t == GetTargetPosition(e)
      current_h == GetCurrentHeight(e)
      target_h == GetTileHeight(lv, e, t[1], t[2])
  IN IF target_h - current_h = 1 \/ current_h > target_h
     THEN Ret([e EXCEPT !.bot_x = t[1], !.bot_y = t[2]], TRUE)
     ELSE Ret(e, FALSE)

\* A jump that climbs any rise.
EngJumpAnyRise(lv, e) ==
  LET t == GetTargetPosition(e)
      current_h == GetCurrentHeight(e)
      target_h == GetTileHeight(lv, e, t[1], t[2])
  IN IF ~IsValidPosition(lv, t[1], t[2]) THEN Ret(e, FALSE)
     ELSE IF target_h > current_h \/ current_h > target_h
          THEN Ret([e EXCEPT !.bot_x = t[1], !.bot_y = t[2]], TRUE)
          ELSE Ret(e, FALSE)

EngJump(lv, e) ==
  LET t == GetTargetPosition(e)
      current_h == GetCurrentHeight(e)
      target_h == GetTileHeight(lv, e, t[1], t[2])
  IN IF ~IsValidPosition(lv, t[1], t[2]) THEN Ret(e, FALSE)
     ELSE IF target_h - current_h = 1 \/ current_h > target_h
          THEN Ret([e EXCEPT !.bot_x = t[1], !.bot_y = t[2]], TRUE)
          ELSE Ret(e, FALSE)

\* A light that also marks a plain tile as lit.
EngLightAnyTile(lv, e) ==
  LET pos == <<e.bot_x, e.bot_y>>
      tile_type == GetTileType(lv, e, e.bot_x, e.bot_y)
  IN IF tile_type = TILE_ELEVATOR
     THEN LET new_height == (e.map_data[pos].h + 2) % 6
          IN Ret([e EXCEPT !.map_data[pos].h = new_height,
                           !.elevator_heights[pos] = new_height], TRUE)
     ELSE Ret([e EXCEPT !.lights_on =
                 IF pos \in e.lights_on THEN e.lights_on \ {pos}
                                        ELSE e.lights_on \cup {pos}], TRUE)

\* A light that switches a lamp on and never off.
EngLightOnOnly(lv, e) ==
  LET pos == <<e.bot_x, e.bot_y>>
      tile_type == GetTileType(lv, e, e.bot_x, e.bot_y)
  IN IF tile_type = TILE_LIGHT
     THEN Ret([e EXCEPT !.lights_on = e.lights_on \cup {pos}], TRUE)
     ELSE IF tile_type = TILE_ELEVATOR
          THEN LET new_height == (e.map_data[pos].h + 2) % 6
               IN Ret([e EXCEPT !.map_data[pos].h = new_height,
                                !.elevator_heights[pos] = new_height], TRUE)
          ELSE Ret(e, FALSE)

EngLight(lv, e) ==
  LET pos == <<e.bot_x, e.bot_y>>
      tile_type == GetTileType(lv, e, e.bot_x, e.bot_y)
  IN IF tile_type = TILE_LIGHT
     THEN Ret([e EXCEPT !.lights_on =
                 IF pos \in e.lights_on THEN e.lights_on \ {pos}
                                        ELSE e.lights_on \cup {pos}], TRUE)
     ELSE IF tile_type = TILE_ELEVATOR
          THEN LET new_height == (e.map_data[pos].h + 2) % 6
               IN Ret([e EXCEPT !.map_data[pos].h = new_height,
                                !.elevator_heights[pos] = new_height], TRUE)
          ELSE Ret(e, FALSE)

EngTurnLeft(e) == Ret([e EXCEPT !.bot_dir = (e.bot_dir + 1) % 4], TRUE)

\* A right turn that stops at direction 0 instead of wrapping to 3.
EngTurnRightClamped(e) ==
  Ret([e EXCEPT !.bot_dir = IF e.bot_dir = 0 THEN 0 ELSE e.bot_dir - 1], TRUE)

EngTurnRight(e) == Ret([e EXCEPT !.bot_dir = (e.bot_dir - 1) % 4], TRUE)

\* A step that answers False to a value that is no instruction.
StepIgnoringUnknown(lv, e, instruction) ==
  IF instruction = WALK THEN EngWalk(lv, e)
  ELSE IF instruction = JUMP THEN EngJump(lv, e)
  ELSE IF instruction = LIGHT THEN EngLight(lv, e)
  ELSE IF instruction = TURN_LEFT THEN EngTurnLeft(e)
  ELSE IF instruction = TURN_RIGHT THEN EngTurnRight(e)
  ELSE Ret(e, FALSE)

\* step(instruction)
Step(lv, e, instruction) ==
  IF instruction = WALK THEN EngWalk(lv, e)
  ELSE IF instruction = JUMP THEN EngJump(lv, e)
  ELSE IF instruction = LIGHT THEN EngLight(lv, e)
  ELSE IF instruction = TURN_LEFT THEN EngTurnLeft(e)
  ELSE IF instruction = TURN_RIGHT THEN EngTurnRight(e)
  ELSE IF instruction = PROC1 THEN Ret(e, FALSE)
  ELSE IF instruction = PROC2 THEN Ret(e, FALSE)
  ELSE [eng |-> e, ret |-> FALSE, raised |-> TRUE]

\* is_solved(): compares the two counts.
IsSolved(lv, e) == Cardinality(e.lights_on) = Cardinality(LightPositions(lv))

\* Python's tuple order on (x, y) pairs.
PairLess(a, b) == a[1] < b[1] \/ (a[1] = b[1] /\ a[2] < b[2])

RECURSIVE SortedPairs(_)
\* sorted(S) for a set of (x, y) pairs.
SortedPairs(S) ==
  IF S = {} THEN <<>>
  ELSE LET m == CHOOSE a \in S : \A b \in S \ {a} : PairLess(a, b)
       IN <<m>> \o SortedPairs(S \ {m})

\* A hash of the position, the facing and the lit set alone.
GetStateHashNoElevators(e) ==
  <<e.bot_x, e.bot_y, e.bot_dir, SortedPairs(e.lights_on)>>

\* get_state_hash()
GetStateHash(e) ==
  LET lights_tuple == SortedPairs(e.lights_on)
      keys == SortedPairs(DOMAIN e.elevator_heights)
      elevators_tuple == [i \in 1..Len(keys) |-> <<keys[i], e.elevator_heights[keys[i]]>>]
  IN IF DOMAIN e.elevator_heights # {}
     THEN <<e.bot_x, e.bot_y, e.bot_dir, lights_tuple, elevators_tuple>>
     ELSE <<e.bot_x, e.bot_y, e.bot_dir, lights_tuple>>

RECURSIVE RunSolutionLoop(_, _, _)
RunSolutionLoop(lv, e, instructions) ==
  IF instructions = <<>> THEN e
  ELSE RunSolutionLoop(lv, Step(lv, e, Head(instructions)).eng, Tail(instructions))

\* run_solution(level_index, instructions)
RunSolution(lv, instructions) ==
  IsSolved(lv, RunSolutionLoop(lv, InitFromLevel(lv), instructions))

(***************************************************************************)
(* lightbot/executor.py: Program and ProgramExecutor.execute               *)
(***************************************************************************)
Program(main, proc1, proc2) == [main |-> main, proc1 |-> proc1, proc2 |-> proc2]

TotalSize(program) == Len(program.main) + Len(program.proc1) + Len(program.proc2)

RECURSIVE ExecuteLoop(_, _, _, _, _, _)
\* The while loop of execute: one iteration pops the queue head, counts it,
\* expands a call or steps the engine, and returns as soon as is_solved().
ExecuteLoop(lv, program, max_steps, e, queue, steps) ==
  IF queue # <<>> /\ steps < max_steps
  THEN LET instr == Head(queue)
           rest == Tail(queue)
           queue2 == IF instr = PROC1 THEN program.proc1 \o rest
                     ELSE IF instr = PROC2 THEN program.proc2 \o rest
                     ELSE rest
           e2 == IF instr = PROC1 \/ instr = PROC2 THEN e
                 ELSE Step(lv, e, instr).eng
           Turn(eng, q) ==
             IF IsSolved(lv, eng)
             THEN [solved |-> TRUE, steps |-> steps + 1, eng |-> eng]
             ELSE ExecuteLoop(lv, program, max_steps, eng, q, steps + 1)
       IN \* the engine and the queue after the item, worked out once
          CHOOSE r \in {Turn(eng, q) : eng \in {e2}, q \in {queue2}} : TRUE
  ELSE [solved |-> IsSolved(lv, e), steps |-> steps, eng |-> e]

\* execute(program): resets the engine, then runs the queue from MAIN.
Execute(lv, program, max_steps) ==
  ExecuteLoop(lv, program, max_steps, InitFromLevel(lv), program.main, 0)


(***************************************************************************)
(* Bounds of the model.                                                    *)
(***************************************************************************)
\* The largest max_instructions / max_depth handed to the flat solvers.
MaxDepth == 6

\* The largest max_size handed to the procedure solvers.
MaxSize == 4

\* The step budgets (max_exec_steps) the procedure solvers are built with:
\* too few steps for a two-light corridor, too few for the recursive
\* program of a three-light corridor, and just enough for the recursive
\* program of a four-light corridor (3 * 4 steps).
MinExecSteps == 3

MidExecSteps == 8

MaxExecSteps == 12

\* BFSSolver.solve(max_instructions=30)
DefaultMaxInstructions == 30

\* _search_distribution_with_timeout looks at the clock when programs_tested
\* is a multiple of 10000.  No search up to MaxSize tests that many
\* programs, so the model scales the period down: the clock is looked at
\* inside distributions, at every multiple of CheckPeriod.
CheckPeriod == 550

(***************************************************************************)
(* State.  level is the index of the level under search.  Each solver      *)
(* object is one record variable holding its fields and the position of    *)
(* its solve() call.                                                       *)
(***************************************************************************)
VARIABLES
  level,             \* index into LEVELS
  max_instructions,  \* the bound b of BFSSolver.solve / IDSSolver.solve
  bfs,               \* BFSSolver.solve: pc, queue, visited, result
  ids,               \* IDSSolver.solve: pc, depth, stack of _dfs frames, visited, result
  max_size,          \* the max_size of the procedure solvers' solve()
  max_exec_steps,    \* the step budget the procedure solvers are built with
  ps,                \* ProcedureSolver.solve: position in the nested loops, result
  os,                \* OptimizedProcedureSolver.solve
  fs,                \* FastProcedureSolver.solve
  rs,                \* ResumableProcedureSolver: its fields and the position of solve()
  ckpt,              \* the checkpoint file of the level: None, or Some(SolverCheckpoint)
  ref,               \* a ResumableProcedureSolver whose clock never expires, run in step with rs
  audit,             \* the chain of solve() sessions so far: how it stands, what it executed
  exec_program,      \* the Program handed to ProgramExecutor.execute
  ex,                \* ProgramExecutor.execute: position, queue, steps, engine, result
  file,              \* the JSON text of the checkpoint file, where the text matters
  call,              \* the solve() call in progress or returned: arguments, time, outcome
  codec,             \* a SolverCheckpoint in memory and what load() made of its file
  eg                 \* LightBotEngine objects and the objects they refer to

vars == <<level, max_instructions, bfs, ids, max_size, max_exec_steps, ps, os, fs,
          rs, ckpt, ref, audit, exec_program, ex, file, call, codec, eg>>

execVars == <<exec_program, ex>>

fileVars == <<file, call, codec>>

engVars == <<eg>>

flatVars == <<level, max_instructions, bfs, ids>>

resVars == <<rs, ckpt, ref, audit>>

procVars == <<max_size, max_exec_steps, ps, os, fs>>

Lv == LEVELS[level]

BASIC_INSTRUCTIONS == <<WALK, JUMP, LIGHT, TURN_LEFT, TURN_RIGHT>>

(***************************************************************************)
(* solvers/bfs_solver.py: BFSSolver.solve                                  *)
(***************************************************************************)
\* enqueued, expanded and popped are not variables of the code: they list
\* the hashes appended to the queue, the hashes of the nodes whose children
\* were tried, and the sequence lengths of the nodes taken off the queue.
BfsIdle == [pc |-> "start", queue |-> <<>>, visited |-> {}, result |-> None,
            enqueued |-> <<>>, expanded |-> <<>>, popped |-> <<>>]

\* A test that takes every hash for a new one.
IsNewAlways(state_hash, visited) == TRUE

\* if state_hash not in visited
IsNew(state_hash, visited) == state_hash \notin visited

\* The hashes of the nodes of a queue, in order.
Hashes(queue) == [k \in 1..Len(queue) |-> GetStateHash(queue[k].state)]

RECURSIVE BfsTry(_, _, _, _, _)
\* The for loop over BASIC_INSTRUCTIONS for one dequeued node, from the
\* i-th instruction on: returns on the first solved child, else enqueues
\* every child whose hash is new.
BfsTry(lv, node, i, visited, queue) ==
  IF i > Len(BASIC_INSTRUCTIONS)
  THEN [result |-> None, visited |-> visited, queue |-> queue]
  ELSE LET instr == BASIC_INSTRUCTIONS[i]
           new_state == Step(lv, Clone(node.state), instr).eng
           state_hash == GetStateHash(new_state)
       IN IF IsSolved(lv, new_state)
          THEN [result |-> Some(Append(node.instructions, instr)),
                visited |-> visited, queue |-> queue]
          ELSE IF IsNew(state_hash, visited)
               THEN BfsTry(lv, node, i + 1, visited \cup {state_hash},
                           Append(queue, [instructions |-> Append(node.instructions, instr),
                                          state |-> new_state]))
               ELSE BfsTry(lv, node, i + 1, visited, queue)

\* queue = deque([([], engine.clone())]); visited = {engine.get_state_hash()}
BfsStart ==
  /\ bfs.pc = "start"
  /\ bfs' = [pc |-> "loop",
             queue |-> << [instructions |-> <<>>, state |-> Clone(InitFromLevel(Lv))] >>,
             visited |-> {GetStateHash(InitFromLevel(Lv))},
             result |-> None,
             enqueued |-> <<GetStateHash(InitFromLevel(Lv))>>,
             expanded |-> <<>>,
             popped |-> <<>>]
  /\ UNCHANGED <<level, max_instructions, ids, procVars, resVars, execVars, fileVars, engVars>>

\* One iteration of "while queue": popleft, the depth test, the for loop.
\* A return ends the lifetime of the locals queue and visited, and of the
\* lists kept about them.
BfsExpand ==
  /\ bfs.pc = "loop"
  /\ bfs.queue # <<>>
  /\ \E node \in {Head(bfs.queue)}, rest \in {Tail(bfs.queue)} :
     \E popped \in {Append(bfs.popped, Len(node.instructions))} :
       IF Len(node.instructions) >= max_instructions
       THEN bfs' = [bfs EXCEPT !.queue = rest, !.popped = popped]
       ELSE \E r \in {BfsTry(Lv, node, 1, bfs.visited, rest)} :
              LET expanded == Append(bfs.expanded, GetStateHash(node.state))
                  enqueued == bfs.enqueued \o
                                SubSeq(Hashes(r.queue), Len(rest) + 1, Len(r.queue))
              IN IF r.result # None
                 THEN bfs' = [BfsIdle EXCEPT !.pc = "done", !.result = r.result]
                 ELSE bfs' = [bfs EXCEPT !.queue = r.queue, !.visited = r.visited,
                                         !.enqueued = enqueued,
                                         !.expanded = expanded, !.popped = popped]
  /\ UNCHANGED <<level, max_instructions, ids, procVars, resVars, execVars, fileVars, engVars>>

\* The queue is empty: return None.
BfsExhausted ==
  /\ bfs.pc = "loop"
  /\ bfs.queue = <<>>
  /\ bfs' = [BfsIdle EXCEPT !.pc = "done"]
  /\ UNCHANGED <<level, max_instructions, ids, procVars, resVars, execVars, fileVars, engVars>>

(***************************************************************************)
(* solvers/ids_solver.py: IDSSolver.solve and _dfs.  The recursion of _dfs *)
(* is an explicit stack of frames; frame.i = 0 on entry, and afterwards    *)
(* the index of the next instruction of the for loop.                      *)
(***************************************************************************)
\* pruned is not a variable of the code: it collects the hashes the cycle
\* test of _dfs has turned away since solve() was called.
IdsIdle == [pc |-> "wait", depth |-> 0, stack |-> <<>>, visited |-> {}, result |-> None,
            pruned |-> {}]

Frame(path, state, remaining) ==
  [path |-> path, state |-> state, remaining |-> remaining, i |-> 0]

Top(stack) == stack[Len(stack)]

Pop(stack) == SubSeq(stack, 1, Len(stack) - 1)

\* IDSSolver.solve is called once BFSSolver.solve has returned.
IdsStart ==
  /\ bfs.pc = "done"
  /\ ids.pc = "wait"
  /\ ids' = [ids EXCEPT !.pc = "iter", !.depth = 1]
  /\ UNCHANGED <<level, max_instructions, bfs, procVars, resVars, execVars, fileVars, engVars>>

\* for depth in range(1, max_depth + 1): visited = set(); _dfs([], clone, depth, visited)
IdsNextDepth ==
  /\ ids.pc = "iter"
  /\ IF ids.depth <= max_instructions
     THEN ids' = [ids EXCEPT !.pc = "dfs", !.visited = {},
                             !.stack = << Frame(<<>>, Clone(InitFromLevel(Lv)), ids.depth) >>]
     ELSE ids' = [ids EXCEPT !.pc = "done", !.result = None]
  /\ UNCHANGED <<level, max_instructions, bfs, procVars, resVars, execVars, fileVars, engVars>>

\* A value returned by the innermost _dfs call: None makes the caller go on
\* with its for loop; at the root it ends the depth iteration.
IdsReturnNone(st) ==
  IF Len(st.stack) = 1
  THEN [st EXCEPT !.stack = <<>>, !.pc = "iter", !.depth = st.depth + 1]
  ELSE [st EXCEPT !.stack = Pop(st.stack)]

\* Entry of _dfs: solved, depth limit, cycle test, visited.add.
IdsEnter ==
  /\ ids.pc = "dfs"
  /\ Top(ids.stack).i = 0
  /\ LET f == Top(ids.stack)
         state_hash == GetStateHash(f.state)
     IN IF IsSolved(Lv, f.state)
        THEN ids' = [ids EXCEPT !.pc = "done", !.result = Some(f.path)]
        ELSE IF f.remaining = 0
             THEN ids' = IdsReturnNone(ids)
             ELSE IF state_hash \in ids.visited
                  THEN ids' = IdsReturnNone([ids EXCEPT !.pruned = @ \cup {state_hash}])
                  ELSE ids' = [ids EXCEPT !.visited = ids.visited \cup {state_hash},
                                          !.stack[Len(ids.stack)].i = 1]
  /\ UNCHANGED <<level, max_instructions, bfs, procVars, resVars, execVars, fileVars, engVars>>

\* One iteration of the for loop of _dfs: the recursive call on the child.
IdsCall ==
  /\ ids.pc = "dfs"
  /\ Top(ids.stack).i >= 1
  /\ Top(ids.stack).i <= Len(BASIC_INSTRUCTIONS)
  /\ LET f == Top(ids.stack)
         instr == BASIC_INSTRUCTIONS[f.i]
         new_state == Step(Lv, Clone(f.state), instr).eng
     IN ids' = [ids EXCEPT !.stack =
                  Append([ids.stack EXCEPT ![Len(ids.stack)].i = f.i + 1],
                         Frame(Append(f.path, instr), new_state, f.remaining - 1))]
  /\ UNCHANGED <<level, max_instructions, bfs, procVars, resVars, execVars, fileVars, engVars>>

\* A return from the for loop that leaves the hash in visited.
IdsLeaveKeepVisited ==
  /\ ids.pc = "dfs"
  /\ Top(ids.stack).i > Len(BASIC_INSTRUCTIONS)
  /\ ids' = IdsReturnNone(ids)
  /\ UNCHANGED <<level, max_instructions, bfs, procVars, resVars, execVars, fileVars, engVars>>

\* The for loop is over: visited.discard(state_hash); return None.
IdsLeave ==
  /\ ids.pc = "dfs"
  /\ Top(ids.stack).i > Len(BASIC_INSTRUCTIONS)
  /\ LET f == Top(ids.stack)
     IN ids' = IdsReturnNone([ids EXCEPT !.visited = ids.visited \ {GetStateHash(f.state)}])
  /\ UNCHANGED <<level, max_instructions, bfs, procVars, resVars, execVars, fileVars, engVars>>

(***************************************************************************)
(* solvers/procedure_solver.py: class ProcedureSolver                      *)
(***************************************************************************)
ALL_INSTRUCTIONS == <<WALK, JUMP, LIGHT, TURN_LEFT, TURN_RIGHT, PROC1, PROC2>>

\* Python's "x in seq".
In(x, seq) == \E i \in 1..Len(seq) : seq[i] = x

RECURSIVE Pow(_, _)
Pow(m, n) == IF n = 0 THEN 1 ELSE m * Pow(m, n - 1)

\* _get_proc_instructions without the self-recursion entries.
GetProcInstructionsNoSelf(has_p1, has_p2, is_p1) ==
  BASIC_INSTRUCTIONS
    \o (IF is_p1 /\ has_p2 THEN <<PROC2>> ELSE <<>>)
    \o (IF ~is_p1 /\ has_p1 THEN <<PROC1>> ELSE <<>>)

\* _get_proc_instructions(has_p1, has_p2, is_p1): the basic instructions,
\* then the call of the other procedure, then the call of itself.
GetProcInstructions(has_p1, has_p2, is_p1) ==
  BASIC_INSTRUCTIONS
    \o (IF is_p1 /\ has_p2 THEN <<PROC2>> ELSE <<>>)
    \o (IF ~is_p1 /\ has_p1 THEN <<PROC1>> ELSE <<>>)
    \o (IF is_p1 /\ has_p1 THEN <<PROC1>> ELSE <<>>)
    \o (IF ~is_p1 /\ has_p2 THEN <<PROC2>> ELSE <<>>)

\* A _generate_sequences without its two "continue" tests.
CallableAll(instructions, has_p1, has_p2) == instructions

\* The instructions that survive the two "continue" tests of
\* _generate_sequences: a sequence is yielded iff all its elements do.
Callable(instructions, has_p1, has_p2) ==
  LET Keep(x) == (x # PROC1 \/ has_p1) /\ (x # PROC2 \/ has_p2)
  IN SelectSeq(instructions, Keep)

\* len(list(_generate_sequences(length, instructions, has_p1, has_p2)))
GenLen(length, instructions, has_p1, has_p2) ==
  IF length = 0 THEN 1
  ELSE Pow(Len(Callable(instructions, has_p1, has_p2)), length)

\* list(_generate_sequences(length, instructions, has_p1, has_p2))[k], k from 0.
\* itertools.product varies the last position fastest, and the filter keeps
\* the order, so the k-th yielded sequence is k written with `length` digits
\* over the surviving instructions.
GenAt(length, instructions, has_p1, has_p2, k) ==
  LET alphabet == Callable(instructions, has_p1, has_p2)
      m == Len(alphabet)
  IN [j \in 1..length |-> alphabet[((k \div Pow(m, length - j)) % m) + 1]]

\* _is_valid_program without its three infinite-loop rules.
IsValidProgramNoLoopRules(program) ==
  IF program.main = <<>> THEN FALSE
  ELSE IF /\ program.proc1 # <<>>
          /\ ~In(PROC1, program.main) /\ ~In(PROC1, program.proc2)
          /\ ~In(PROC1, program.proc1) THEN FALSE
  ELSE IF /\ program.proc2 # <<>>
          /\ ~In(PROC2, program.main) /\ ~In(PROC2, program.proc1)
          /\ ~In(PROC2, program.proc2) THEN FALSE
  ELSE TRUE

\* _is_valid_program with one more pruning rule: a procedure that calls
\* itself is taken for an infinite loop and rejected.
IsValidProgramNoSelfCall(program) ==
  IF program.main = <<>> THEN FALSE
  ELSE IF In(PROC1, program.proc1) \/ In(PROC2, program.proc2) THEN FALSE
  ELSE IF /\ program.proc1 # <<>>
          /\ ~In(PROC1, program.main) /\ ~In(PROC1, program.proc2) THEN FALSE
  ELSE IF /\ program.proc2 # <<>>
          /\ ~In(PROC2, program.main) /\ ~In(PROC2, program.proc1) THEN FALSE
  ELSE IF program.proc1 = <<PROC2>> /\ program.proc2 = <<PROC1>> THEN FALSE
  ELSE TRUE

\* _is_valid_program(program)
IsValidProgram(program) ==
  IF program.main = <<>> THEN FALSE
  ELSE IF /\ program.proc1 # <<>>
          /\ ~In(PROC1, program.main) /\ ~In(PROC1, program.proc2)
          /\ ~In(PROC1, program.proc1) THEN FALSE
  ELSE IF /\ program.proc2 # <<>>
          /\ ~In(PROC2, program.main) /\ ~In(PROC2, program.proc1)
          /\ ~In(PROC2, program.proc2) THEN FALSE
  ELSE IF program.proc1 = <<PROC1>> THEN FALSE
  ELSE IF program.proc2 = <<PROC2>> THEN FALSE
  ELSE IF program.proc1 = <<PROC2>> /\ program.proc2 = <<PROC1>> THEN FALSE
  ELSE TRUE

RECURSIVE DistRows(_, _)
\* The (main_size, p1_size, p2_size) triples of _search_size for main_size
\* from `main_size` on, in the order of its two for loops.
DistRows(total_size, main_size) ==
  IF main_size > total_size THEN <<>>
  ELSE LET remaining == total_size - main_size
       IN [k \in 1..(remaining + 1) |-> <<main_size, k - 1, remaining - (k - 1)>>]
          \o DistRows(total_size, main_size + 1)

\* The size distributions of one total size in loop order.
Distributions(total_size) == DistRows(total_size, 1)

\* The candidate program at indices (mi, pi, p2i) of one size distribution:
\* the three sequence lists of _search_distribution, indexed.
CandidateAt(d, mi, pi, p2i) ==
  LET has_p1 == d[2] > 0
      has_p2 == d[3] > 0
      main_instrs == IF has_p1 \/ has_p2 THEN ALL_INSTRUCTIONS ELSE BASIC_INSTRUCTIONS
  IN Program(GenAt(d[1], main_instrs, has_p1, has_p2, mi),
             IF has_p1
             THEN GenAt(d[2], GetProcInstructions(has_p1, has_p2, TRUE), TRUE, has_p2, pi)
             ELSE <<>>,
             IF has_p2
             THEN GenAt(d[3], GetProcInstructions(has_p1, has_p2, FALSE), has_p1, TRUE, p2i)
             ELSE <<>>)

\* The lengths of the three sequence lists of one size distribution.
CandidateCounts(d) ==
  LET has_p1 == d[2] > 0
      has_p2 == d[3] > 0
      main_instrs == IF has_p1 \/ has_p2 THEN ALL_INSTRUCTIONS ELSE BASIC_INSTRUCTIONS
  IN << GenLen(d[1], main_instrs, has_p1, has_p2),
        IF has_p1 THEN GenLen(d[2], GetProcInstructions(has_p1, has_p2, TRUE), TRUE, has_p2)
                  ELSE 1,
        IF has_p2 THEN GenLen(d[3], GetProcInstructions(has_p1, has_p2, FALSE), has_p1, TRUE)
                  ELSE 1 >>

\* The position of a solve() call in its nested loops: total size, index of
\* the size distribution in the list `dists` of that size (from 1), and
\* the indices of main, p1 and p2 in their sequence lists (from 0).
SolverIdle == [pc |-> "wait", size |-> 0, di |-> 0, mi |-> 0, pi |-> 0, p2i |-> 0,
               result |-> None]

\* The loops of solve / _search_size / _search_distribution move on to the
\* next candidate after one that did not solve, or fall out with None.
NextCandidate(st, dists, msize) ==
  LET n == CandidateCounts(dists[st.di])
  IN IF st.p2i + 1 < n[3] THEN [st EXCEPT !.p2i = st.p2i + 1]
     ELSE IF st.pi + 1 < n[2] THEN [st EXCEPT !.pi = st.pi + 1, !.p2i = 0]
     ELSE IF st.mi + 1 < n[1] THEN [st EXCEPT !.mi = st.mi + 1, !.pi = 0, !.p2i = 0]
     ELSE IF st.di + 1 <= Len(dists)
          THEN [st EXCEPT !.di = st.di + 1, !.mi = 0, !.pi = 0, !.p2i = 0]
     ELSE IF st.size + 1 <= msize
          THEN [st EXCEPT !.size = st.size + 1, !.di = 1, !.mi = 0, !.pi = 0, !.p2i = 0]
     ELSE [st EXCEPT !.pc = "done", !.result = None]

\* for size in range(1, max_size + 1): the first candidate, if any.
FirstCandidate(msize) ==
  IF msize >= 1
  THEN [pc |-> "search", size |-> 1, di |-> 1, mi |-> 0, pi |-> 0, p2i |-> 0, result |-> None]
  ELSE [SolverIdle EXCEPT !.pc = "done"]

\* ProcedureSolver.solve is called once BFSSolver.solve has returned.
ProcStart ==
  /\ bfs.pc = "done"
  /\ ps.pc = "wait"
  /\ ps' = FirstCandidate(max_size)
  /\ UNCHANGED <<flatVars, resVars, max_size, max_exec_steps, os, fs, execVars, fileVars, engVars>>

\* The innermost loop body of _search_distribution for one candidate:
\* build the program, skip it if invalid, execute it, return it if solved.
ProcCandidate ==
  /\ ps.pc = "search"
  /\ LET dists == Distributions(ps.size)
         program == CandidateAt(dists[ps.di], ps.mi, ps.pi, ps.p2i)
     IN IF IsValidProgram(program) /\ Execute(Lv, program, max_exec_steps).solved
        THEN ps' = [ps EXCEPT !.pc = "done", !.result = Some(program)]
        ELSE ps' = NextCandidate(ps, dists, max_size)
  /\ UNCHANGED <<flatVars, resVars, max_size, max_exec_steps, os, fs, execVars, fileVars, engVars>>

(***************************************************************************)
(* solvers/procedure_solver.py: class OptimizedProcedureSolver             *)
(***************************************************************************)
\* The sort key of _search_size_optimized: (p1_size + p2_size, main_size).
DistKeyLess(a, b) ==
  a[2] + a[3] < b[2] + b[3] \/ (a[2] + a[3] = b[2] + b[3] /\ a[1] < b[1])

RECURSIVE InsertDist(_, _)
\* Insert d into a sorted list after every element whose key is not greater.
InsertDist(sorted, d) ==
  IF sorted = <<>> THEN <<d>>
  ELSE IF DistKeyLess(d, Head(sorted)) THEN <<d>> \o sorted
  ELSE <<Head(sorted)>> \o InsertDist(Tail(sorted), d)

RECURSIVE SortDists(_, _)
\* list.sort(key=...): a stable sort, here by insertion from the left.
SortDists(dists, sorted) ==
  IF dists = <<>> THEN sorted
  ELSE CHOOSE r \in {SortDists(Tail(dists), inserted) :
                       inserted \in {InsertDist(sorted, Head(dists))}} : TRUE

\* The size distributions of one total size after distributions.sort(...).
SortedDistributions(total_size) == SortDists(Distributions(total_size), <<>>)

RECURSIVE StateCheckLoop(_, _, _, _, _, _, _)
\* The while loop of _execute_with_state_check: as ExecuteLoop, and after
\* each consumed queue item the execution is given up (False) if the
\* engine's state hash is one already recorded in this execution.
StateCheckLoop(lv, program, max_steps, e, queue, steps, visited_states) ==
  IF queue # <<>> /\ steps < max_steps
  THEN LET instr == Head(queue)
           rest == Tail(queue)
           queue2 == IF instr = PROC1 THEN program.proc1 \o rest
                     ELSE IF instr = PROC2 THEN program.proc2 \o rest
                     ELSE rest
           e2 == IF instr = PROC1 \/ instr = PROC2 THEN e
                 ELSE Step(lv, e, instr).eng
           Turn(eng, q, state) ==
             IF IsSolved(lv, eng)
             THEN [solved |-> TRUE, abandoned |-> FALSE]
             ELSE IF state \in visited_states
                  THEN [solved |-> FALSE, abandoned |-> TRUE]
                  ELSE StateCheckLoop(lv, program, max_steps, eng, q, steps + 1,
                                      visited_states \cup {state})
       IN \* the engine, the queue and the hash after the item, worked out once
          CHOOSE r \in {Turn(eng, q, GetStateHash(eng)) : eng \in {e2}, q \in {queue2}} : TRUE
  ELSE [solved |-> IsSolved(lv, e), abandoned |-> FALSE]

\* _execute_with_state_check(program)
ExecuteWithStateCheck(lv, program, max_steps) ==
  StateCheckLoop(lv, program, max_steps, InitFromLevel(lv), program.main, 0, {})

\* OptimizedProcedureSolver.solve is called once ProcedureSolver.solve has returned.
OptStart ==
  /\ ps.pc = "done"
  /\ os.pc = "wait"
  /\ os' = FirstCandidate(max_size)
  /\ UNCHANGED <<flatVars, resVars, max_size, max_exec_steps, ps, fs, execVars, fileVars, engVars>>

\* The innermost loop body of _search_distribution_optimized.
OptCandidate ==
  /\ os.pc = "search"
  /\ LET dists == SortedDistributions(os.size)
         program == CandidateAt(dists[os.di], os.mi, os.pi, os.p2i)
     IN IF /\ IsValidProgram(program)
           /\ ExecuteWithStateCheck(Lv, program, max_exec_steps).solved
        THEN os' = [os EXCEPT !.pc = "done", !.result = Some(program)]
        ELSE os' = NextCandidate(os, dists, max_size)
  /\ UNCHANGED <<flatVars, resVars, max_size, max_exec_steps, ps, fs, execVars, fileVars, engVars>>

(***************************************************************************)
(* solvers/fast_procedure_solver.py: class FastProcedureSolver             *)
(***************************************************************************)
\* The k-th tuple (from 0) of the generators _gen_basic_sequences,
\* _gen_proc_sequences, _gen_main_with_proc1 and _gen_main_with_both_procs:
\* gen() appends the instructions in list order, position by position.
GenSeqAt(instrs, length, k) ==
  [j \in 1..length |-> instrs[((k \div Pow(Len(instrs), length - j)) % Len(instrs)) + 1]]

\* _gen_proc_sequences: the instruction list it builds.
GenProcInstrs(allow_self, allow_p2, is_p2) ==
  BASIC_INSTRUCTIONS
    \o (IF allow_self THEN <<IF ~is_p2 THEN PROC1 ELSE PROC2>> ELSE <<>>)
    \o (IF allow_p2 /\ ~is_p2 THEN <<PROC2>> ELSE <<>>)
    \o (IF allow_self /\ is_p2 THEN <<PROC1>> ELSE <<>>)

\* _has_action with all() in the place of any().
HasActionAll(seq) == \A i \in 1..Len(seq) : seq[i] \in {WALK, JUMP, LIGHT}

\* _has_action(seq)
HasAction(seq) == \E i \in 1..Len(seq) : seq[i] \in {WALK, JUMP, LIGHT}

\* _test_program taking "the program ran to its end within the budget" for
\* success in the place of result.solved.
TestProgramEnded(lv, program, max_steps) ==
  IF program.proc1 = <<PROC1>> THEN FALSE
  ELSE IF program.proc2 = <<PROC2>> THEN FALSE
  ELSE Execute(lv, program, max_steps).steps < max_steps

\* _test_program(program)
TestProgram(lv, program, max_steps) ==
  IF program.proc1 = <<PROC1>> THEN FALSE
  ELSE IF program.proc2 = <<PROC2>> THEN FALSE
  ELSE Execute(lv, program, max_steps).solved

\* The position of FastProcedureSolver.solve: the total size, the stage of
\* _search_size_fast ("main": _try_main_only, "p1": _try_with_proc1,
\* "both": _try_with_both_procs), the sizes of the two for loops around
\* the stage, and the indices of p1, p2 and main in their generators.
FastIdle == [pc |-> "wait", size |-> 0, stage |-> "main", main_size |-> 0, p1_size |-> 0,
             p1i |-> 0, p2i |-> 0, mi |-> 0, result |-> None]

\* for size in range(1, max_size + 1): _try_main_only(size) comes first.
FastEnterSize(st, size, msize) ==
  IF size <= msize
  THEN [st EXCEPT !.pc = "search", !.size = size, !.stage = "main", !.main_size = size,
                  !.p1_size = 0, !.p1i = 0, !.p2i = 0, !.mi = 0]
  ELSE [st EXCEPT !.pc = "done", !.result = None]

\* for main_size in range(1, total_size - 1): for p1_size in range(1, remaining)
FastEnterBoth(st, main_size, p1_size, msize) ==
  IF main_size >= st.size - 1 THEN FastEnterSize(st, st.size + 1, msize)
  ELSE IF p1_size >= st.size - main_size
       THEN IF main_size + 1 >= st.size - 1 THEN FastEnterSize(st, st.size + 1, msize)
            ELSE [st EXCEPT !.stage = "both", !.main_size = main_size + 1, !.p1_size = 1,
                            !.p1i = 0, !.p2i = 0, !.mi = 0]
       ELSE [st EXCEPT !.stage = "both", !.main_size = main_size, !.p1_size = p1_size,
                       !.p1i = 0, !.p2i = 0, !.mi = 0]

\* for main_size in range(1, total_size): p1_size = total_size - main_size
FastEnterP1(st, main_size, msize) ==
  IF main_size >= st.size THEN FastEnterBoth(st, 1, 1, msize)
  ELSE [st EXCEPT !.stage = "p1", !.main_size = main_size, !.p1_size = st.size - main_size,
                  !.p1i = 0, !.p2i = 0, !.mi = 0]

FastP1Instrs(st) == GenProcInstrs(TRUE, st.stage = "both", FALSE)

FastP2Instrs == GenProcInstrs(TRUE, FALSE, TRUE)

FastMainInstrs(st) ==
  IF st.stage = "main" THEN BASIC_INSTRUCTIONS
  ELSE IF st.stage = "p1" THEN BASIC_INSTRUCTIONS \o <<PROC1>>
  ELSE BASIC_INSTRUCTIONS \o <<PROC1, PROC2>>

FastP2Size(st) == IF st.stage = "both" THEN st.size - st.main_size - st.p1_size ELSE 0

\* The program the three generators are at.
FastProgram(st) ==
  Program(GenSeqAt(FastMainInstrs(st), st.main_size, st.mi),
          IF st.stage = "main" THEN <<>> ELSE GenSeqAt(FastP1Instrs(st), st.p1_size, st.p1i),
          IF st.stage = "both" THEN GenSeqAt(FastP2Instrs, FastP2Size(st), st.p2i) ELSE <<>>)

\* The p1 loop moves on (the loops inside it start over).
FastNextP1(st, msize) ==
  IF st.p1i + 1 < Pow(Len(FastP1Instrs(st)), st.p1_size)
  THEN [st EXCEPT !.p1i = st.p1i + 1, !.p2i = 0, !.mi = 0]
  ELSE IF st.stage = "p1" THEN FastEnterP1(st, st.main_size + 1, msize)
       ELSE FastEnterBoth(st, st.main_size, st.p1_size + 1, msize)

\* The p2 loop of _try_with_both_procs moves on.
FastNextP2(st, msize) ==
  IF st.p2i + 1 < Pow(Len(FastP2Instrs), FastP2Size(st))
  THEN [st EXCEPT !.p2i = st.p2i + 1, !.mi = 0]
  ELSE FastNextP1(st, msize)

\* The main loop (the innermost one) moves on.
FastNextMain(st, msize) ==
  IF st.mi + 1 < Pow(Len(FastMainInstrs(st)), st.main_size)
  THEN [st EXCEPT !.mi = st.mi + 1]
  ELSE IF st.stage = "main" THEN FastEnterP1(st, 1, msize)
       ELSE IF st.stage = "p1" THEN FastNextP1(st, msize)
            ELSE FastNextP2(st, msize)

\* FastProcedureSolver.solve is called once OptimizedProcedureSolver.solve has returned.
FastStart ==
  /\ os.pc = "done"
  /\ fs.pc = "wait"
  /\ fs' = FastEnterSize(fs, 1, max_size)
  /\ UNCHANGED <<flatVars, resVars, max_size, max_exec_steps, ps, os, execVars, fileVars, engVars>>

\* One iteration of the loops of _try_main_only, _try_with_proc1 or
\* _try_with_both_procs: a "continue" of the p1, p2 or main loop, or the
\* test of the program.
FastCandidate ==
  /\ fs.pc = "search"
  /\ LET program == FastProgram(fs)
     IN IF fs.stage # "main" /\ ~HasAction(program.proc1)
        THEN fs' = FastNextP1(fs, max_size)
        ELSE IF fs.stage = "both" /\ ~HasAction(program.proc2)
             THEN fs' = FastNextP2(fs, max_size)
        ELSE IF fs.stage = "p1" /\ ~In(PROC1, program.main)
             THEN fs' = FastNextMain(fs, max_size)
        ELSE IF fs.stage = "both" /\ ~In(PROC1, program.main) /\ ~In(PROC2, program.main)
             THEN fs' = FastNextMain(fs, max_size)
        ELSE IF TestProgram(Lv, program, max_exec_steps)
             THEN fs' = [fs EXCEPT !.pc = "done", !.result = Some(program)]
             ELSE fs' = FastNextMain(fs, max_size)
  /\ UNCHANGED <<flatVars, resVars, max_size, max_exec_steps, ps, os, execVars, fileVars, engVars>>

(***************************************************************************)
(* solvers/resumable_procedure_solver.py: SolverCheckpoint and             *)
(* ResumableProcedureSolver.  The wall clock is not modelled: at each      *)
(* place where the code compares time.time() with the timeout, the         *)
(* comparison may come out either way (time_spent, which only reports,     *)
(* is left out).  The class repeats _generate_sequences and                *)
(* _is_valid_program of ProcedureSolver line by line; the model uses       *)
(* GenLen, GenAt and IsValidProgram for both.                              *)
(***************************************************************************)
\* _save_checkpoint(): the SolverCheckpoint built from the solver's fields.
SolverCheckpoint(level_index, st) ==
  [level |-> level_index,
   current_size |-> st.current_size,
   current_main_size |-> st.current_main_size,
   current_p1_size |-> st.current_p1_size,
   current_p2_size |-> st.current_p2_size,
   programs_tested |-> st.programs_tested,
   main_index |-> st.main_index,
   p1_index |-> st.p1_index,
   p2_index |-> st.p2_index]

\* __init__: the fields of a new solver; pc is the position of solve(),
\* executed is the program the latest step handed to executor.execute.
ResInit ==
  [pc |-> "idle",
   current_size |-> 1, current_main_size |-> 1, current_p1_size |-> 0, current_p2_size |-> 0,
   main_index |-> 0, p1_index |-> 0, p2_index |-> 0, programs_tested |-> 0,
   initially_resumed |-> FALSE, skip_to_saved_position |-> FALSE, skip_to_indices |-> FALSE,
   i |-> 1, start_idx |-> 1, start |-> <<0, 0, 0>>,
   timed_out |-> FALSE, solution |-> None, executed |-> None]

\* An "Initialize or restore state" that restores from any checkpoint,
\* whatever its level.
ResRestoreAnyLevel(st, checkpoint, level_index) ==
  IF checkpoint # None
  THEN [st EXCEPT !.current_size = checkpoint[1].current_size,
                  !.current_main_size = checkpoint[1].current_main_size,
                  !.current_p1_size = checkpoint[1].current_p1_size,
                  !.current_p2_size = checkpoint[1].current_p2_size,
                  !.programs_tested = checkpoint[1].programs_tested,
                  !.main_index = checkpoint[1].main_index,
                  !.p1_index = checkpoint[1].p1_index,
                  !.p2_index = checkpoint[1].p2_index,
                  !.initially_resumed = TRUE, !.skip_to_saved_position = TRUE,
                  !.timed_out = FALSE, !.solution = None, !.executed = None]
  ELSE [st EXCEPT !.current_size = 1, !.current_main_size = 1,
                  !.current_p1_size = 0, !.current_p2_size = 0,
                  !.programs_tested = 0,
                  !.main_index = 0, !.p1_index = 0, !.p2_index = 0,
                  !.initially_resumed = FALSE, !.skip_to_saved_position = FALSE,
                  !.timed_out = FALSE, !.solution = None, !.executed = None]

\* solve(), "Initialize or restore state".
ResRestore(st, checkpoint, level_index) ==
  IF checkpoint # None /\ checkpoint[1].level = level_index
  THEN [st EXCEPT !.current_size = checkpoint[1].current_size,
                  !.current_main_size = checkpoint[1].current_main_size,
                  !.current_p1_size = checkpoint[1].current_p1_size,
                  !.current_p2_size = checkpoint[1].current_p2_size,
                  !.programs_tested = checkpoint[1].programs_tested,
                  !.main_index = checkpoint[1].main_index,
                  !.p1_index = checkpoint[1].p1_index,
                  !.p2_index = checkpoint[1].p2_index,
                  !.initially_resumed = TRUE, !.skip_to_saved_position = TRUE,
                  !.timed_out = FALSE, !.solution = None, !.executed = None]
  ELSE [st EXCEPT !.current_size = 1, !.current_main_size = 1,
                  !.current_p1_size = 0, !.current_p2_size = 0,
                  !.programs_tested = 0,
                  !.main_index = 0, !.p1_index = 0, !.p2_index = 0,
                  !.initially_resumed = FALSE, !.skip_to_saved_position = FALSE,
                  !.timed_out = FALSE, !.solution = None, !.executed = None]

\* _get_proc_instructions(has_p1, has_p2, is_p1)
ResGetProcInstructions(has_p1, has_p2, is_p1) ==
  BASIC_INSTRUCTIONS
    \o (IF is_p1
        THEN (IF has_p2 THEN <<PROC2>> ELSE <<>>) \o (IF has_p1 THEN <<PROC1>> ELSE <<>>)
        ELSE (IF has_p1 THEN <<PROC1>> ELSE <<>>) \o (IF has_p2 THEN <<PROC2>> ELSE <<>>))

\* _search_size_with_timeout: the distribution list, built and sorted.
ResDistributions(total_size) == SortDists(Distributions(total_size), <<>>)

\* "Find starting point if resuming": the index (from 1) of the first
\* distribution equal to target, the first index when there is none.
StartIdx(distributions, target) ==
  IF \E k \in 1..Len(distributions) : distributions[k] = target
  THEN CHOOSE k \in 1..Len(distributions) :
         /\ distributions[k] = target
         /\ \A j \in 1..(k - 1) : distributions[j] # target
  ELSE 1

\* len(main_seqs), len(p1_seqs), len(p2_seqs) of _search_distribution_with_timeout.
ResSeqCounts(d) ==
  LET has_p1 == d[2] > 0
      has_p2 == d[3] > 0
      main_instrs == IF has_p1 \/ has_p2 THEN ALL_INSTRUCTIONS ELSE BASIC_INSTRUCTIONS
  IN << GenLen(d[1], main_instrs, has_p1, has_p2),
        IF has_p1 THEN GenLen(d[2], ResGetProcInstructions(has_p1, has_p2, TRUE), TRUE, has_p2)
                  ELSE 1,
        IF has_p2 THEN GenLen(d[3], ResGetProcInstructions(has_p1, has_p2, FALSE), has_p1, TRUE)
                  ELSE 1 >>

\* Program(list(main_seqs[mi]), list(p1_seqs[pi]), list(p2_seqs[p2i]))
ResProgramAt(d, mi, pi, p2i) ==
  LET has_p1 == d[2] > 0
      has_p2 == d[3] > 0
      main_instrs == IF has_p1 \/ has_p2 THEN ALL_INSTRUCTIONS ELSE BASIC_INSTRUCTIONS
  IN Program(GenAt(d[1], main_instrs, has_p1, has_p2, mi),
             IF has_p1
             THEN GenAt(d[2], ResGetProcInstructions(has_p1, has_p2, TRUE), TRUE, has_p2, pi)
             ELSE <<>>,
             IF has_p2
             THEN GenAt(d[3], ResGetProcInstructions(has_p1, has_p2, FALSE), has_p1, TRUE, p2i)
             ELSE <<>>)

\* A resume that restores the p1 index on every main sequence.
P1StartAnyMain(mi, start) == start[2]

\* p1_start = start_p1 if mi == start_main else 0
P1Start(mi, start) == IF mi = start[1] THEN start[2] ELSE 0

\* p2_start = start_p2 if (mi == start_main and pi == start_p1) else 0
P2Start(mi, pi, start) == IF mi = start[1] /\ pi = start[2] THEN start[3] ELSE 0

\* solve() with a resumed session taking up the search at the size after
\* the saved one.
ResEnterSizeNextSize(st, size, msize) ==
  LET from == IF st.skip_to_saved_position THEN size + 1 ELSE size
  IN IF from > msize THEN [st EXCEPT !.pc = "return"]
     ELSE [st EXCEPT !.pc = "dist", !.current_size = from,
                     !.i = 1, !.start_idx = 1, !.skip_to_indices = FALSE]

\* solve(): one turn of "for size in range(self._current_size, max_size + 1)"
\* up to the distribution loop of _search_size_with_timeout; past max_size
\* the loop is over and solve() goes on to return.
ResEnterSize(st, size, msize) ==
  IF size > msize THEN [st EXCEPT !.pc = "return"]
  ELSE LET distributions == ResDistributions(size)
           target == <<st.current_main_size, st.current_p1_size, st.current_p2_size>>
           start_idx == IF st.skip_to_saved_position THEN StartIdx(distributions, target) ELSE 1
       IN [st EXCEPT !.pc = "dist", !.current_size = size,
                     !.i = start_idx, !.start_idx = start_idx,
                     !.skip_to_indices = st.skip_to_saved_position]

\* _search_size_with_timeout looking at the clock before it assigns the
\* distribution to the solver's fields.
ResDistClockFirst(st, expired) ==
  LET d == ResDistributions(st.current_size)[st.i]
      st1 == [st EXCEPT !.current_main_size = d[1], !.current_p1_size = d[2],
                        !.current_p2_size = d[3], !.executed = None]
      use_skip_indices == st.i = st.start_idx /\ st.skip_to_indices
      start == IF use_skip_indices THEN <<st.main_index, st.p1_index, st.p2_index>>
               ELSE <<0, 0, 0>>
  IN IF expired THEN [st EXCEPT !.pc = "return", !.timed_out = TRUE, !.executed = None]
     ELSE [st1 EXCEPT !.pc = "cand", !.start = start,
                      !.main_index = start[1],
                      !.p1_index = P1Start(start[1], start),
                      !.p2_index = P2Start(start[1], P1Start(start[1], start), start)]

\* _search_size_with_timeout: one turn of "for i in range(start_idx, ...)"
\* up to the first candidate: the clock is looked at (expired: it has run
\* out), then _search_distribution_with_timeout sets its starting indices.
ResDist(st, expired) ==
  LET d == ResDistributions(st.current_size)[st.i]
      st1 == [st EXCEPT !.current_main_size = d[1], !.current_p1_size = d[2],
                        !.current_p2_size = d[3], !.executed = None]
      use_skip_indices == st.i = st.start_idx /\ st.skip_to_indices
      start == IF use_skip_indices THEN <<st.main_index, st.p1_index, st.p2_index>>
               ELSE <<0, 0, 0>>
  IN IF expired THEN [st1 EXCEPT !.pc = "return", !.timed_out = TRUE]
     ELSE [st1 EXCEPT !.pc = "cand", !.start = start,
                      !.main_index = start[1],
                      !.p1_index = P1Start(start[1], start),
                      !.p2_index = P2Start(start[1], P1Start(start[1], start), start)]

\* The three for loops of _search_distribution_with_timeout move on; after
\* the last candidate of the distribution, _search_size_with_timeout resets
\* the indices and takes the next distribution; after the last distribution,
\* solve() resets the fields and takes the next size.  (main_seqs holds no
\* call of an absent procedure, so the two "continue" of the main loop never run.)
ResNext(st, msize) ==
  LET d == <<st.current_main_size, st.current_p1_size, st.current_p2_size>>
      n == ResSeqCounts(d)
      mi == st.main_index
      pi == st.p1_index
  IN IF st.p2_index + 1 < n[3] THEN [st EXCEPT !.p2_index = st.p2_index + 1]
     ELSE IF pi + 1 < n[2]
          THEN [st EXCEPT !.p1_index = pi + 1, !.p2_index = P2Start(mi, pi + 1, st.start)]
     ELSE IF mi + 1 < n[1]
          THEN [st EXCEPT !.main_index = mi + 1,
                          !.p1_index = P1Start(mi + 1, st.start),
                          !.p2_index = P2Start(mi + 1, P1Start(mi + 1, st.start), st.start)]
     ELSE LET st1 == [st EXCEPT !.skip_to_indices = FALSE,
                                !.main_index = 0, !.p1_index = 0, !.p2_index = 0]
          IN IF st.i + 1 <= Len(ResDistributions(st.current_size))
             THEN [st1 EXCEPT !.pc = "dist", !.i = st.i + 1]
             ELSE ResEnterSize([st1 EXCEPT !.current_main_size = 1, !.current_p1_size = 0,
                                           !.current_p2_size = 0,
                                           !.skip_to_saved_position = FALSE],
                               st.current_size + 1, msize)

\* The body of the innermost loop for the candidate at the three indices:
\* the periodic look at the clock, the validity check, the execution.
ResCand(lv, st, msize, max_steps, expired) ==
  LET d == <<st.current_main_size, st.current_p1_size, st.current_p2_size>>
      program == ResProgramAt(d, st.main_index, st.p1_index, st.p2_index)
      st0 == [st EXCEPT !.executed = None]
  IN IF st.programs_tested % CheckPeriod = 0 /\ expired
     THEN [st0 EXCEPT !.pc = "return", !.timed_out = TRUE]
     ELSE IF ~IsValidProgram(program) THEN ResNext(st0, msize)
     ELSE LET st1 == [st EXCEPT !.programs_tested = st.programs_tested + 1,
                                !.executed = Some(program)]
          IN IF Execute(lv, program, max_steps).solved
             THEN [st1 EXCEPT !.pc = "return", !.solution = Some(program)]
             ELSE ResNext(st1, msize)

\* An end of solve() that deletes the checkpoint only in a session that
\* was not resumed.
ResReturnKeepResumed(st, checkpoint, level_index) ==
  IF st.timed_out THEN Some(SolverCheckpoint(level_index, st))
  ELSE IF st.solution # None /\ ~st.initially_resumed THEN None
  ELSE checkpoint

\* An end of solve() whose save leaves a checkpoint that is already in the
\* file as it is.
ResReturnKeepFile(st, checkpoint, level_index) ==
  IF st.timed_out
  THEN (IF checkpoint # None THEN checkpoint ELSE Some(SolverCheckpoint(level_index, st)))
  ELSE IF st.solution # None THEN None
  ELSE checkpoint

\* The end of solve(): the checkpoint file after "if timed_out: ...
\* elif solution is not None: ...".
ResReturn(st, checkpoint, level_index) ==
  IF st.timed_out THEN Some(SolverCheckpoint(level_index, st))
  ELSE IF st.solution # None THEN None
  ELSE checkpoint

\* The solver and the checkpoint file after a step that left the solver at st.
ResSettle(st, checkpoint, level_index) ==
  IF st.pc = "return"
  THEN [rs |-> [st EXCEPT !.pc = "returned"], ckpt |-> ResReturn(st, checkpoint, level_index)]
  ELSE [rs |-> st, ckpt |-> checkpoint]

RECURSIVE RefRun(_, _, _, _)
\* The solver whose clock never expires, run until it has executed one more
\* candidate or solve() is about to return.
RefRun(lv, st, msize, max_steps) ==
  IF st.pc \notin {"dist", "cand"} THEN [st EXCEPT !.executed = None]
  ELSE CHOOSE r \in {IF st2.executed # None THEN st2 ELSE RefRun(lv, st2, msize, max_steps) :
                       st2 \in {IF st.pc = "dist" THEN ResDist(st, FALSE)
                                ELSE ResCand(lv, st, msize, max_steps, FALSE)}} : TRUE

\* The place of a candidate in the enumeration: size, distribution, indices.
Pos(st) == <<st.current_size, st.i, st.main_index, st.p1_index, st.p2_index>>

\* Lexicographic order of two places.
PosLess(a, b) ==
  \E k \in 1..5 : a[k] < b[k] /\ \A j \in 1..(k - 1) : a[j] = b[j]

\* The later of two optional places.
MaxPos(a, b) ==
  IF a = None THEN b
  ELSE IF b = None THEN a
  ELSE IF PosLess(a[1], b[1]) THEN b ELSE a

\* What a session and the sessions it was resumed from have executed: how
\* many candidates, and the place of the last one.
NoLineage == [tested |-> 0, last |-> None]

\* No session yet.  closed: a session that did not time out has returned
\* before the current one began; pos: the place of the last candidate the
\* current session executed; earlier: the last place earlier sessions
\* executed; tested: the candidates executed by the current session and the
\* sessions it was resumed from; base_last: the place of the last candidate
\* those sessions executed; saved: the same two for the session that wrote
\* the checkpoint file; started: the place the current session took the
\* search up at.
AuditInit ==
  [closed |-> FALSE, pos |-> None, earlier |-> None,
   tested |-> 0, base_last |-> None, saved |-> NoLineage, started |-> None]

\* The place of the last candidate executed by the current session or, if
\* it has executed none, by the sessions it was resumed from.
LastExecuted(a) == IF a.pos # None THEN a.pos ELSE a.base_last

\* The audit after a step that left the solver at st and the file at
\* checkpoint: a save records who wrote the file, a delete forgets it.
AuditSettle(a, st, checkpoint) ==
  IF st.pc # "returned" THEN a
  ELSE IF st.timed_out
  THEN [a EXCEPT !.saved = [tested |-> a.tested, last |-> LastExecuted(a)]]
  ELSE IF checkpoint = None THEN [a EXCEPT !.saved = NoLineage]
  ELSE a

\* solve(max_size, timeout, resume=True) is called: the first time once
\* FastProcedureSolver.solve has returned, later once the previous session
\* has returned, whatever its outcome.
ResSolve ==
  /\ fs.pc = "done"
  /\ rs.pc \in {"idle", "returned"}
  /\ \E restored \in {ResRestore(rs, ckpt, level)} :
     \E after \in {ResSettle(ResEnterSize(restored, restored.current_size, max_size),
                             ckpt, level)} :
        /\ rs' = after.rs
        /\ ckpt' = after.ckpt
        /\ ref' = IF rs.pc = "idle"
                  THEN LET fresh == ResRestore(ResInit, None, level)
                       IN ResEnterSize(fresh, fresh.current_size, max_size)
                  ELSE [ref EXCEPT !.executed = None]
        /\ audit' = AuditSettle(
                       [closed |-> audit.closed \/ (rs.pc = "returned" /\ ~rs.timed_out),
                        pos |-> None,
                        earlier |-> MaxPos(audit.earlier, audit.pos),
                        tested |-> IF restored.initially_resumed
                                   THEN audit.saved.tested ELSE 0,
                        base_last |-> IF restored.initially_resumed
                                      THEN audit.saved.last ELSE None,
                        saved |-> audit.saved,
                        started |-> Some(<<restored.current_size,
                                           IF restored.initially_resumed
                                           THEN StartIdx(ResDistributions(restored.current_size),
                                                         <<restored.current_main_size,
                                                           restored.current_p1_size,
                                                           restored.current_p2_size>>)
                                           ELSE 1,
                                           restored.main_index, restored.p1_index,
                                           restored.p2_index>>)],
                       after.rs, after.ckpt)
  /\ UNCHANGED <<flatVars, max_size, max_exec_steps, ps, os, fs, execVars, fileVars, engVars>>

\* The session reaches the next distribution of _search_size_with_timeout.
ResDistStart ==
  /\ rs.pc = "dist"
  /\ \E expired \in BOOLEAN :
       \E after \in {ResSettle(ResDist(rs, expired), ckpt, level)} :
          /\ rs' = after.rs
          /\ ckpt' = after.ckpt
          /\ audit' = AuditSettle(audit, after.rs, after.ckpt)
  /\ ref' = [ref EXCEPT !.executed = None]
  /\ UNCHANGED <<flatVars, max_size, max_exec_steps, ps, os, fs, execVars, fileVars, engVars>>

\* One turn of the innermost loop of _search_distribution_with_timeout, and
\* whatever follows it up to the next candidate, the next distribution or
\* the return of solve(); the code looks at the clock only when
\* programs_tested is a multiple of the period.  While the chain is open,
\* ref executes its next candidate whenever the session executes one or returns for good.
ResCandidate ==
  /\ rs.pc = "cand"
  /\ \E expired \in (IF rs.programs_tested % CheckPeriod = 0 THEN BOOLEAN ELSE {FALSE}) :
       \E st \in {ResCand(Lv, rs, max_size, max_exec_steps, expired)} :
       \E after \in {ResSettle(st, ckpt, level)} :
          /\ rs' = after.rs
          /\ ckpt' = after.ckpt
          /\ ref' = IF ~audit.closed
                       /\ (st.executed # None \/ (st.pc = "return" /\ ~st.timed_out))
                    THEN RefRun(Lv, ref, max_size, max_exec_steps)
                    ELSE [ref EXCEPT !.executed = None]
          /\ audit' = AuditSettle(
                         IF st.executed # None
                         THEN [audit EXCEPT !.pos = Some(Pos(rs)), !.tested = @ + 1]
                         ELSE audit,
                         after.rs, after.ckpt)
  /\ UNCHANGED <<flatVars, max_size, max_exec_steps, ps, os, fs, execVars, fileVars, engVars>>

(***************************************************************************)
(* lightbot/executor.py: ProgramExecutor.execute as a process, one action  *)
(* per turn of its while loop.  max_exec_steps is the executor's           *)
(* max_steps; consumed is the history of the items popped from the queue.  *)
(***************************************************************************)
\* Program([], [], []): no program.
NoProgram == Program(<<>>, <<>>, <<>>)

\* __init__: an executor on a new engine of the level, execute() not called.
\* prior is not a variable of the code: it keeps the state the engine was in
\* when execute() was called.
ExecIdle(lv) ==
  [pc |-> "idle", queue |-> <<>>, steps |-> 0, eng |-> InitFromLevel(lv),
   result |-> None, consumed |-> <<>>, prior |-> InitFromLevel(lv)]

IsCall(instr) == instr = PROC1 \/ instr = PROC2

\* program.proc1 or program.proc2, by the call instruction.
ProcBody(prog, instr) == IF instr = PROC1 THEN prog.proc1 ELSE prog.proc2

\* A call that puts the procedure body behind the pending instructions.
PrependBehind(body, queue) == queue \o body

\* queue = list(program.proc1) + queue
Prepend(body, queue) == body \o queue

\* A loop test that lets the step that reaches max_steps go on.
ExecContinuesInclusive(queue, steps, max_steps) == queue # <<>> /\ steps <= max_steps

\* while queue and steps < self.max_steps
ExecContinues(queue, steps, max_steps) == queue # <<>> /\ steps < max_steps

\* A loop body without "if self.engine.is_solved(): return True, steps".
ExecIterNoEarlyReturn(lv, prog, st) ==
  LET instr == Head(st.queue)
      rest == Tail(st.queue)
  IN [st EXCEPT !.queue = IF IsCall(instr) THEN Prepend(ProcBody(prog, instr), rest)
                          ELSE rest,
                !.steps = st.steps + 1,
                !.eng = IF IsCall(instr) THEN st.eng ELSE Step(lv, st.eng, instr).eng,
                !.consumed = Append(st.consumed, instr)]

\* The body of the while loop: pop, count, expand or step, test is_solved.
ExecIter(lv, prog, st) ==
  LET instr == Head(st.queue)
      rest == Tail(st.queue)
      e2 == IF IsCall(instr) THEN st.eng ELSE Step(lv, st.eng, instr).eng
      st2 == [st EXCEPT !.queue = IF IsCall(instr)
                                  THEN Prepend(ProcBody(prog, instr), rest)
                                  ELSE rest,
                        !.steps = st.steps + 1,
                        !.eng = e2,
                        !.consumed = Append(st.consumed, instr)]
  IN IF IsSolved(lv, e2)
     THEN [st2 EXCEPT !.pc = "done", !.result = Some(<<TRUE, st.steps + 1>>)]
     ELSE st2

\* execute(program) is called: engine.reset(), queue = list(program.main).
ExecStart ==
  /\ ex.pc = "idle"
  /\ ex' = [ex EXCEPT !.pc = "loop", !.queue = exec_program.main, !.steps = 0,
                      !.eng = Reset(Lv, ex.eng), !.prior = ex.eng]
  /\ UNCHANGED <<flatVars, procVars, resVars, exec_program, fileVars, engVars>>

\* One turn of the while loop.
ExecStep ==
  /\ ex.pc = "loop"
  /\ ExecContinues(ex.queue, ex.steps, max_exec_steps)
  /\ ex' = ExecIter(Lv, exec_program, ex)
  /\ UNCHANGED <<flatVars, procVars, resVars, exec_program, fileVars, engVars>>

\* The loop test fails: return self.engine.is_solved(), steps.
ExecReturn ==
  /\ ex.pc = "loop"
  /\ ~ExecContinues(ex.queue, ex.steps, max_exec_steps)
  /\ ex' = [ex EXCEPT !.pc = "done",
                      !.result = Some(<<IsSolved(Lv, ex.eng), ex.steps>>)]
  /\ UNCHANGED <<flatVars, procVars, resVars, exec_program, fileVars, engVars>>

\* execute() has returned and the caller is about to call it again, with
\* the same program or another one; the engine stays as the run left it.
ExecAgain(programs) ==
  /\ ex.pc = "done"
  /\ exec_program' \in programs \cup {exec_program}
  /\ ex' = [ExecIdle(Lv) EXCEPT !.eng = ex.eng]
  /\ UNCHANGED <<flatVars, procVars, resVars, fileVars, engVars>>

\* Between two calls of execute() the caller steps the engine itself.
ExecDisturb ==
  /\ ex.pc = "idle"
  /\ \E k \in 1..Len(BASIC_INSTRUCTIONS) :
       ex' = [ex EXCEPT !.eng = Step(Lv, ex.eng, BASIC_INSTRUCTIONS[k]).eng]
  /\ UNCHANGED <<flatVars, procVars, resVars, exec_program, fileVars, engVars>>

(***************************************************************************)
(* solvers/resumable_procedure_solver.py: class SolverCheckpoint and its   *)
(* file.  A Python number is an int or a float; the floats of the model    *)
(* are the hundredths (n is the number of hundredths), which covers        *)
(* time_spent values with none, one and two decimals.  The text of a file  *)
(* is a sequence of lexemes; white space (indent=2) is left out.  The      *)
(* reader takes the JSON this class writes and its damaged forms: an       *)
(* object whose members are numbers, an empty array, null, a number;       *)
(* nested values are outside the model.                                    *)
(***************************************************************************)
IntV(n) == [ty |-> "int", n |-> n]

FloatV(hundredths) == [ty |-> "float", n |-> hundredths]

\* Python's == on two numbers: 3 == 3.0.
PyEq(a, b) ==
  (IF a.ty = "int" THEN 100 * a.n ELSE a.n) = (IF b.ty = "int" THEN 100 * b.n ELSE b.n)

DigitChars == <<"0", "1", "2", "3", "4", "5", "6", "7", "8", "9">>

IsDigit(c) == \E d \in 1..10 : DigitChars[d] = c

DigitValue(c) == (CHOOSE d \in 1..10 : DigitChars[d] = c) - 1

RECURSIVE Digits(_)
\* The decimal digits of a natural number, most significant first.
Digits(n) ==
  IF n < 10 THEN <<DigitChars[n + 1]>>
  ELSE Append(Digits(n \div 10), DigitChars[(n % 10) + 1])

RECURSIVE DigitsValue(_)
\* The natural number a non-empty sequence of digits denotes.
DigitsValue(cs) ==
  IF Len(cs) = 1 THEN DigitValue(cs[1])
  ELSE 10 * DigitsValue(SubSeq(cs, 1, Len(cs) - 1)) + DigitValue(cs[Len(cs)])

\* A float formatter that drops a zero in the middle of the fraction: .05 as .5.
FormatNumberShortFraction(v) ==
  LET a == IF v.n < 0 THEN -v.n ELSE v.n
      sign == IF v.n < 0 THEN <<"-">> ELSE <<>>
  IN IF v.ty = "int" THEN sign \o Digits(a)
     ELSE sign \o Digits(a \div 100) \o <<".">>
          \o (IF (a % 100) \div 10 = 0 THEN <<DigitChars[(a % 10) + 1]>>
              ELSE IF a % 10 = 0 THEN <<DigitChars[((a % 100) \div 10) + 1]>>
              ELSE <<DigitChars[((a % 100) \div 10) + 1], DigitChars[(a % 10) + 1]>>)

\* json.dump of a number: int.__repr__ for an int; float.__repr__ for a
\* float, the shortest decimal that reads back as the same float, with at
\* least one digit after the point.
FormatNumber(v) ==
  LET a == IF v.n < 0 THEN -v.n ELSE v.n
      sign == IF v.n < 0 THEN <<"-">> ELSE <<>>
  IN IF v.ty = "int" THEN sign \o Digits(a)
     ELSE sign \o Digits(a \div 100) \o <<".">>
          \o (IF a % 10 = 0 THEN <<DigitChars[((a % 100) \div 10) + 1]>>
              ELSE <<DigitChars[((a % 100) \div 10) + 1], DigitChars[(a % 10) + 1]>>)

\* The JSON decoder on a number lexeme: "-"? int ("." digits)?, an int
\* without leading zero; an int when there is no fraction, else a float.
\* ok is FALSE where the decoder raises JSONDecodeError.
ParseNumber(cs) ==
  LET body == IF cs # <<>> /\ cs[1] = "-" THEN Tail(cs) ELSE cs
      neg == cs # <<>> /\ cs[1] = "-"
      dots == {i \in 1..Len(body) : body[i] = "."}
      bad == [ok |-> FALSE, val |-> IntV(0)]
  IN IF body = <<>> \/ \E i \in 1..Len(body) : ~IsDigit(body[i]) /\ body[i] # "."
     THEN bad
     ELSE IF dots = {}
     THEN IF Len(body) > 1 /\ body[1] = "0" THEN bad
          ELSE [ok |-> TRUE,
                val |-> IntV(IF neg THEN -DigitsValue(body) ELSE DigitsValue(body))]
     ELSE IF Cardinality(dots) > 1 THEN bad
     ELSE LET k == CHOOSE i \in dots : TRUE
              ip == SubSeq(body, 1, k - 1)
              fp == SubSeq(body, k + 1, Len(body))
          IN IF ip = <<>> \/ fp = <<>> \/ Len(fp) > 2 \/ (Len(ip) > 1 /\ ip[1] = "0")
             THEN bad
             ELSE LET h == 100 * DigitsValue(ip)
                           + (IF Len(fp) = 1 THEN 10 * DigitValue(fp[1])
                              ELSE DigitsValue(fp))
                  IN [ok |-> TRUE, val |-> FloatV(IF neg THEN -h ELSE h)]

\* The lexemes of a JSON text.
Punct(c) == [t |-> "punct", v |-> <<c>>]

Str(name) == [t |-> "str", v |-> <<name>>]

Num(cs) == [t |-> "num", v |-> cs]

Null == [t |-> "null", v |-> <<>>]

\* The fields of the dataclass in declaration order; the first seven have
\* no default.
CheckpointFields ==
  <<"level", "current_size", "current_main_size", "current_p1_size", "current_p2_size",
    "programs_tested", "time_spent", "main_index", "p1_index", "p2_index">>

RequiredFields == {CheckpointFields[i] : i \in 1..7}

FieldSet == {CheckpointFields[i] : i \in 1..Len(CheckpointFields)}

\* to_dict(): asdict(self), the fields in declaration order.
ToDict(c) == [i \in 1..Len(CheckpointFields) |-> <<CheckpointFields[i], c[CheckpointFields[i]]>>]

RECURSIVE DumpMembers(_)
DumpMembers(members) ==
  IF members = <<>> THEN <<>>
  ELSE <<Str(members[1][1]), Punct(":"), Num(FormatNumber(members[1][2]))>>
       \o (IF Len(members) = 1 THEN <<>> ELSE <<Punct(",")>>)
       \o DumpMembers(Tail(members))

\* json.dump(d, f, indent=2) of a dict of numbers.
JsonDump(members) == <<Punct("{")>> \o DumpMembers(members) \o <<Punct("}")>>

JsonError == [ok |-> FALSE, kind |-> "error", members |-> <<>>]

RECURSIVE ParseMembers(_, _)
\* The members of an object after its "{" or a ",", up to the "}" that must
\* end the text.
ParseMembers(text, acc) ==
  IF /\ Len(text) >= 4
     /\ text[1].t = "str"
     /\ text[2] = Punct(":")
     /\ text[3].t = "num"
     /\ ParseNumber(text[3].v).ok
  THEN LET acc2 == Append(acc, <<text[1].v[1], ParseNumber(text[3].v).val>>)
       IN IF text[4] = Punct("}")
          THEN IF Len(text) = 4 THEN [ok |-> TRUE, kind |-> "object", members |-> acc2]
               ELSE JsonError
          ELSE IF text[4] = Punct(",") THEN ParseMembers(SubSeq(text, 5, Len(text)), acc2)
          ELSE JsonError
  ELSE JsonError

\* json.load(f): the value of the text, or JSONDecodeError (ok FALSE).
JsonLoad(text) ==
  IF text = <<>> THEN JsonError
  ELSE IF text = <<Null>> THEN [ok |-> TRUE, kind |-> "null", members |-> <<>>]
  ELSE IF text = <<Punct("["), Punct("]")>>
  THEN [ok |-> TRUE, kind |-> "array", members |-> <<>>]
  ELSE IF Len(text) = 1 /\ text[1].t = "num"
  THEN IF ParseNumber(text[1].v).ok THEN [ok |-> TRUE, kind |-> "number", members |-> <<>>]
       ELSE JsonError
  ELSE IF text = <<Punct("{"), Punct("}")>>
  THEN [ok |-> TRUE, kind |-> "object", members |-> <<>>]
  ELSE IF text[1] = Punct("{") THEN ParseMembers(Tail(text), <<>>)
  ELSE JsonError

\* The outcomes of load(): TypeError leaves the call, or a checkpoint or None.
LoadRaises == [raised |-> TRUE, checkpoint |-> None]

LoadReturns(c) == [raised |-> FALSE, checkpoint |-> c]

\* from_dict(d): cls(**d) on a dict; of two members with one key the dict
\* holds the later; a key that is no field, or a field without default that
\* is missing, is a TypeError; main_index, p1_index, p2_index default to 0.
FromDict(members) ==
  LET keys == {members[i][1] : i \in 1..Len(members)}
      last(f) == members[CHOOSE i \in 1..Len(members) :
                           /\ members[i][1] = f
                           /\ \A j \in (i + 1)..Len(members) : members[j][1] # f][2]
  IN IF ~(keys \subseteq FieldSet) \/ ~(RequiredFields \subseteq keys) THEN LoadRaises
     ELSE LoadReturns(Some([f \in FieldSet |-> IF f \in keys THEN last(f) ELSE IntV(0)]))

\* SolverCheckpoint.load(filepath): None without a file; json.load and
\* from_dict inside "except (json.JSONDecodeError, KeyError): return None";
\* cls(**d) on a value that is no dict is a TypeError.
Load(f) ==
  IF f = None THEN LoadReturns(None)
  ELSE LET j == JsonLoad(f[1])
       IN IF ~j.ok THEN LoadReturns(None)
          ELSE IF j.kind # "object" THEN LoadRaises
          ELSE FromDict(j.members)

\* save(filepath): the file holds json.dump(self.to_dict()).
Save(c) == Some(JsonDump(ToDict(c)))

(***************************************************************************)
(* ResumableProcedureSolver.solve(max_size, timeout, resume) on the file   *)
(* as text.  The time a call takes is one of Elapsed (hundredths of a      *)
(* second), chosen when the call returns; a chain of calls ends when       *)
(* time_spent would pass MaxTimeSpent.                                     *)
(***************************************************************************)
Elapsed == {0, 125}

MaxTimeSpent == 250

\* _save_checkpoint(): the SolverCheckpoint built from the solver's fields,
\* level_index and time_spent.
CheckpointOf(level_index, st, time_spent) ==
  [f \in FieldSet |->
     CASE f = "level" -> IntV(level_index)
       [] f = "current_size" -> IntV(st.current_size)
       [] f = "current_main_size" -> IntV(st.current_main_size)
       [] f = "current_p1_size" -> IntV(st.current_p1_size)
       [] f = "current_p2_size" -> IntV(st.current_p2_size)
       [] f = "programs_tested" -> IntV(st.programs_tested)
       [] f = "time_spent" -> time_spent
       [] f = "main_index" -> IntV(st.main_index)
       [] f = "p1_index" -> IntV(st.p1_index)
       [] f = "p2_index" -> IntV(st.p2_index)]

\* The fields of a loaded checkpoint that solve() copies into the search.
SearchFields(c) ==
  [level |-> c.level.n,
   current_size |-> c.current_size.n,
   current_main_size |-> c.current_main_size.n,
   current_p1_size |-> c.current_p1_size.n,
   current_p2_size |-> c.current_p2_size.n,
   programs_tested |-> c.programs_tested.n,
   main_index |-> c.main_index.n,
   p1_index |-> c.p1_index.n,
   p2_index |-> c.p2_index.n]

\* No call of solve() yet.  resume: the argument; raised: the call ended in
\* an exception; loaded: what _load_checkpoint returned; before: the file
\* when the call began; entered: the solver after "Initialize or restore
\* state" and entered_time its time_spent there; saved: the call ran
\* _save_checkpoint; time_spent: self.time_spent.
NoCall ==
  [resume |-> TRUE, raised |-> FALSE, loaded |-> None, before |-> None,
   entered |-> None, entered_time |-> FloatV(0), saved |-> FALSE,
   time_spent |-> FloatV(0)]

\* The end of solve() for a step that left the solver at st: time_spent
\* grows by the elapsed time, then the file is saved, deleted or left.
CkSettle(st, f, c, elapsed) ==
  IF st.pc # "return" THEN [rs |-> st, file |-> f, call |-> c]
  ELSE LET t == FloatV(c.time_spent.n + elapsed)
       IN [rs |-> [st EXCEPT !.pc = "returned"],
           file |-> IF st.timed_out THEN Save(CheckpointOf(level, st, t))
                    ELSE IF st.solution # None THEN None
                    ELSE f,
           call |-> [c EXCEPT !.time_spent = t, !.saved = st.timed_out]]

\* The elapsed times a step that leaves the solver at st may take.
ElapsedOf(st, c) ==
  IF st.pc = "return" THEN {e \in Elapsed : c.time_spent.n + e <= MaxTimeSpent} ELSE {0}

\* solve(max_size, timeout, resume) is called on a new solver or after an
\* earlier call has returned: the load, "Initialize or restore state", and
\* the first size up to its distribution loop.
CkSolve ==
  /\ rs.pc \in {"idle", "returned"}
  /\ \E resume \in BOOLEAN :
     \E ld \in {IF resume THEN Load(file) ELSE LoadReturns(None)} :
       IF ld.raised
       THEN /\ rs' = [rs EXCEPT !.pc = "raised"]
            /\ file' = file
            /\ call' = [call EXCEPT !.resume = resume, !.raised = TRUE, !.loaded = None,
                                    !.before = file, !.entered = None, !.saved = FALSE]
       ELSE \E restored \in {ResRestore(rs, IF ld.checkpoint = None THEN None
                                            ELSE Some(SearchFields(ld.checkpoint[1])),
                                        level)} :
            \E t \in {IF restored.initially_resumed THEN ld.checkpoint[1].time_spent
                      ELSE FloatV(0)} :
            \E st \in {ResEnterSize(restored, restored.current_size, max_size)} :
            \E elapsed \in ElapsedOf(st, [time_spent |-> t]) :
            \E after \in {CkSettle(st, file,
                                   [resume |-> resume, raised |-> FALSE,
                                    loaded |-> ld.checkpoint, before |-> file,
                                    entered |-> Some(restored), entered_time |-> t,
                                    saved |-> FALSE, time_spent |-> t],
                                   elapsed)} :
               /\ rs' = after.rs
               /\ file' = after.file
               /\ call' = after.call
  /\ UNCHANGED <<flatVars, procVars, ckpt, ref, audit, execVars, codec, engVars>>

\* The call reaches the next distribution of _search_size_with_timeout.
CkDistStart ==
  /\ rs.pc = "dist"
  /\ call.entered # None
  /\ \E expired \in BOOLEAN :
     \E st \in {ResDist(rs, expired)} :
     \E elapsed \in ElapsedOf(st, call) :
     \E after \in {CkSettle(st, file, call, elapsed)} :
        /\ rs' = after.rs
        /\ file' = after.file
        /\ call' = after.call
  /\ UNCHANGED <<flatVars, procVars, ckpt, ref, audit, execVars, codec, engVars>>

\* One turn of the innermost loop of _search_distribution_with_timeout and
\* what follows it up to the next candidate, distribution or the return.
CkCandidate ==
  /\ rs.pc = "cand"
  /\ call.entered # None
  /\ \E expired \in (IF rs.programs_tested % CheckPeriod = 0 THEN BOOLEAN ELSE {FALSE}) :
     \E st \in {ResCand(Lv, rs, max_size, max_exec_steps, expired)} :
     \E elapsed \in ElapsedOf(st, call) :
     \E after \in {CkSettle(st, file, call, elapsed)} :
        /\ rs' = after.rs
        /\ file' = after.file
        /\ call' = after.call
  /\ UNCHANGED <<flatVars, procVars, ckpt, ref, audit, execVars, codec, engVars>>

\* No SolverCheckpoint in memory.
NoCodec == [pc |-> "idle", value |-> None, loaded |-> LoadReturns(None)]

\* checkpoint.save(path) for the SolverCheckpoint in memory.
CodecSave ==
  /\ codec.pc = "made"
  /\ file' = Save(codec.value[1])
  /\ codec' = [codec EXCEPT !.pc = "saved"]
  /\ UNCHANGED <<flatVars, procVars, resVars, execVars, call, engVars>>

\* SolverCheckpoint.load(path) on the file that save() wrote.
CodecLoad ==
  /\ codec.pc = "saved"
  /\ codec' = [codec EXCEPT !.pc = "loaded", !.loaded = Load(file)]
  /\ UNCHANGED <<flatVars, procVars, resVars, execVars, call, file, engVars>>

(***************************************************************************)
(* lightbot/engine.py: LightBotEngine objects.  A Python list, set or dict *)
(* is an object reached through a reference, and _light changes the tile   *)
(* dict, lights_on and elevator_heights in place; so two engines that hold *)
(* the same object see each other's steps.  The heap keeps every such      *)
(* object under an address: a tile dict under <<owner, cell>>, a set or a  *)
(* dict under the name of the engine it was made for.  Owner "L" is the    *)
(* level, whose tiles LEVELS holds; an engine object holds its own         *)
(* position and facing, and addresses for everything else.                 *)
(***************************************************************************)
\* What the last call on an engine was and how it ended; for a reset(), the
\* fields the engine had when it was called.
NoStep == [who |-> "", op |-> "", instruction |-> -2, ret |-> FALSE,
           raised |-> FALSE, was |-> None]

NoEngines == [tiles |-> <<>>, lights |-> <<>>, elevs |-> <<>>, eng |-> <<>>,
              last |-> NoStep]

\* The mapping f with the entries of g added or replaced.
Put(f, g) ==
  [a \in (DOMAIN f) \cup (DOMAIN g) |-> IF a \in DOMAIN g THEN g[a] ELSE f[a]]

\* A tile handed on without the copy: the same object.
CopyTileByReference(owner, a) == a

\* copy.deepcopy of the tile dict at address a: a new dict, kept for owner.
CopyTile(owner, a) == <<owner, a[2]>>

\* A set handed on without the copy.
CopySetByReference(owner, r) == r

\* set(self.lights_on): a new set, kept for owner.
CopySet(owner, r) == owner

\* dict(self.elevator_heights): a new dict, kept for owner.
CopyDict(owner, r) == owner

\* The heap that holds the tiles of the level file and no engine.
LevelHeap(lv) ==
  [NoEngines EXCEPT
     !.tiles = [a \in {"L"} \X Cells(lv) |->
                  lv.map[MapHeight(lv) - a[2][2]][a[2][1] + 1]]]

\* The engine named n, with every reference followed: the value of its
\* fields as the code reads them.
View(h, n) ==
  LET o == h.eng[n]
  IN [bot_x |-> o.bot_x, bot_y |-> o.bot_y, bot_dir |-> o.bot_dir,
      map_data |-> [c \in DOMAIN o.map_data |-> h.tiles[o.map_data[c]]],
      lights_on |-> h.lights[o.lights_on],
      elevator_heights |-> h.elevs[o.elevator_heights]]

\* _init_from_level on the engine named n: new tile dicts copied from the
\* level's, a new empty set, a new dict of the elevators' heights.
InitFromLevelAt(h, lv, n) ==
  LET addr == [c \in Cells(lv) |-> CopyTile(n, <<"L", c>>)]
      tiles == Put(h.tiles, [a \in {addr[c] : c \in Cells(lv)} |->
                               h.tiles[<<"L", a[2]>>]])
      elevator_positions == {c \in Cells(lv) : tiles[addr[c]].t = TILE_ELEVATOR}
      object == [bot_x |-> lv.position[1],
                 bot_y |-> lv.position[2],
                 bot_dir |-> lv.direction,
                 map_data |-> addr,
                 lights_on |-> n,
                 elevator_heights |-> n]
  IN [h EXCEPT
        !.tiles = tiles,
        !.lights = Put(h.lights, [x \in {n} |-> {}]),
        !.elevs = Put(h.elevs, [x \in {n} |->
                     [c \in elevator_positions |-> tiles[addr[c]].h]]),
        !.eng = Put(h.eng, [x \in {n} |-> object])]

\* LightBotEngine(level_index)
NewEngineAt(h, lv, n) ==
  [InitFromLevelAt(h, lv, n) EXCEPT
     !.last = [NoStep EXCEPT !.who = n, !.op = "new"]]

\* reset() on the engine named n.
ResetAt(h, lv, n) ==
  [InitFromLevelAt(h, lv, n) EXCEPT
     !.last = [NoStep EXCEPT !.who = n, !.op = "reset",
                             !.was = Some(View(h, n))]]

\* m = n.clone()
CloneAt(h, lv, n, m) ==
  LET o == h.eng[n]
      addr == [c \in DOMAIN o.map_data |-> CopyTile(m, o.map_data[c])]
      lights_on == CopySet(m, o.lights_on)
      elevator_heights == CopyDict(m, o.elevator_heights)
      object == [o EXCEPT !.map_data = addr,
                          !.lights_on = lights_on,
                          !.elevator_heights = elevator_heights]
  IN [h EXCEPT
        !.tiles = Put(h.tiles, [a \in {addr[c] : c \in DOMAIN addr} |->
                                  h.tiles[o.map_data[a[2]]]]),
        !.lights = Put(h.lights, [x \in {lights_on} |-> h.lights[o.lights_on]]),
        !.elevs = Put(h.elevs, [x \in {elevator_heights} |->
                                  h.elevs[o.elevator_heights]]),
        !.eng = Put(h.eng, [x \in {m} |-> object]),
        !.last = [NoStep EXCEPT !.who = n, !.op = "clone"]]

\* n.step(instruction): the position and facing are stored in the engine
\* object, everything else in the objects it refers to.
StepAt(h, lv, n, instruction) ==
  LET o == h.eng[n]
      r == Step(lv, View(h, n), instruction)
      own == {o.map_data[c] : c \in DOMAIN o.map_data}
  IN [h EXCEPT
        !.eng[n] = [o EXCEPT !.bot_x = r.eng.bot_x,
                             !.bot_y = r.eng.bot_y,
                             !.bot_dir = r.eng.bot_dir],
        !.tiles = [a \in DOMAIN h.tiles |->
                     IF a \in own THEN r.eng.map_data[a[2]] ELSE h.tiles[a]],
        !.lights[o.lights_on] = r.eng.lights_on,
        !.elevs[o.elevator_heights] = r.eng.elevator_heights,
        !.last = [who |-> n, op |-> "step", instruction |-> instruction,
                  ret |-> r.ret, raised |-> r.raised, was |-> None]]

\* The values step() is called with: the seven instructions and two
\* integers that are none of them.
UnknownInstructions == {-1, 7}

StepInputs == (0..6) \cup UnknownInstructions

EngineStep ==
  /\ \E n \in DOMAIN eg.eng, instruction \in StepInputs :
       eg' = StepAt(eg, Lv, n, instruction)
  /\ UNCHANGED <<flatVars, procVars, resVars, execVars, fileVars>>

EngineReset ==
  /\ \E n \in DOMAIN eg.eng : eg' = ResetAt(eg, Lv, n)
  /\ UNCHANGED <<flatVars, procVars, resVars, execVars, fileVars>>

\* B = A.clone(), once.
EngineClone ==
  /\ "B" \notin DOMAIN eg.eng
  /\ eg' = CloneAt(eg, Lv, "A", "B")
  /\ UNCHANGED <<flatVars, procVars, resVars, execVars, fileVars>>

(***************************************************************************)
(* Specifications.                                                         *)
(***************************************************************************)
\* The flat solvers: BFSSolver.solve(b), then IDSSolver.solve(b), on a fresh
\* engine of each level, for each bound b.
InitFlat ==
  /\ level \in LevelIds
  /\ max_instructions \in 0..MaxDepth
  /\ bfs = BfsIdle
  /\ ids = IdsIdle
  /\ max_size = 0
  /\ max_exec_steps = 0
  /\ ps = SolverIdle
  /\ os = SolverIdle
  /\ fs = FastIdle
  /\ rs = ResInit
  /\ ckpt = None
  /\ ref = ResInit
  /\ audit = AuditInit
  /\ exec_program = NoProgram
  /\ ex = ExecIdle(Lv)
  /\ file = None
  /\ call = NoCall
  /\ codec = NoCodec
  /\ eg = NoEngines

NextFlat ==
  \/ BfsStart
  \/ BfsExpand
  \/ BfsExhausted
  \/ IdsStart
  \/ IdsNextDepth
  \/ IdsEnter
  \/ IdsCall
  \/ IdsLeave

SpecFlat == InitFlat /\ [][NextFlat]_vars

\* The procedure solvers on a fresh engine of each level with the same
\* max_size and step budget, one after the other: BFSSolver.solve() with
\* its default bound, ProcedureSolver.solve, OptimizedProcedureSolver.solve,
\* FastProcedureSolver.solve.
InitProc ==
  /\ level \in LevelIds
  /\ max_instructions = DefaultMaxInstructions
  /\ bfs = BfsIdle
  /\ ids = IdsIdle
  /\ max_size \in 1..MaxSize
  /\ max_exec_steps \in {MinExecSteps, MidExecSteps, MaxExecSteps}
  /\ ps = SolverIdle
  /\ os = SolverIdle
  /\ fs = FastIdle
  /\ rs = ResInit
  /\ ckpt = None
  /\ ref = ResInit
  /\ audit = AuditInit
  /\ exec_program = NoProgram
  /\ ex = ExecIdle(Lv)
  /\ file = None
  /\ call = NoCall
  /\ codec = NoCodec
  /\ eg = NoEngines

NextProc ==
  \/ BfsStart
  \/ BfsExpand
  \/ BfsExhausted
  \/ ProcStart
  \/ ProcCandidate
  \/ OptStart
  \/ OptCandidate
  \/ FastStart
  \/ FastCandidate

SpecProc == InitProc /\ [][NextProc]_vars

\* The levels SpecResume searches up to MaxSize.  Corridor4 is left to
\* SpecProc and Walled, where no program solves, is searched up to
\* MaxSize - 1: their full searches are the longest, and every place where
\* a session can be cut (at a distribution, inside one, at the first or a
\* later size, before a solution or before exhaustion) occurs already.
ResumeLevelIds == LevelIds \ {6, 9}

\* The same solvers with the step budget MaxExecSteps, and after them a
\* chain of sessions of ResumableProcedureSolver.solve
\* (resume=True) on one checkpoint directory, empty at first; the clock of
\* a session may run out at any place where the code looks at it.
InitResume ==
  /\ \/ level \in ResumeLevelIds /\ max_size \in 1..MaxSize
     \/ level = 6 /\ max_size \in 1..(MaxSize - 1)
  /\ max_instructions = DefaultMaxInstructions
  /\ bfs = BfsIdle
  /\ ids = IdsIdle
  /\ max_exec_steps = MaxExecSteps
  /\ ps = SolverIdle
  /\ os = SolverIdle
  /\ fs = FastIdle
  /\ rs = ResInit
  /\ ckpt = None
  /\ ref = ResInit
  /\ audit = AuditInit
  /\ exec_program = NoProgram
  /\ ex = ExecIdle(Lv)
  /\ file = None
  /\ call = NoCall
  /\ codec = NoCodec
  /\ eg = NoEngines

NextResume ==
  \/ BfsStart
  \/ BfsExpand
  \/ BfsExhausted
  \/ ProcStart
  \/ ProcCandidate
  \/ OptStart
  \/ OptCandidate
  \/ FastStart
  \/ FastCandidate
  \/ ResSolve
  \/ ResDistStart
  \/ ResCandidate

SpecResume == InitResume /\ [][NextResume]_vars

\* The levels of the chains of sessions that are followed to their end: one
\* that a program of two instructions solves, one that none solves.
ResumeFairLevelIds == {1, 6}

\* The same chain of solvers and sessions on those levels, searching up to
\* MaxSize - 1 with the step budget MinExecSteps.
InitResumeFair ==
  /\ level \in ResumeFairLevelIds /\ max_size \in 1..(MaxSize - 1)
  /\ max_instructions = DefaultMaxInstructions
  /\ bfs = BfsIdle
  /\ ids = IdsIdle
  /\ max_exec_steps = MinExecSteps
  /\ ps = SolverIdle
  /\ os = SolverIdle
  /\ fs = FastIdle
  /\ rs = ResInit
  /\ ckpt = None
  /\ ref = ResInit
  /\ audit = AuditInit
  /\ exec_program = NoProgram
  /\ ex = ExecIdle(Lv)
  /\ file = None
  /\ call = NoCall
  /\ codec = NoCodec
  /\ eg = NoEngines

\* Every solver runs on, and solve(resume=True) is called again whenever a
\* session has returned: main.py's loop calls it until the level is settled.
SpecResumeFair == InitResumeFair /\ [][NextResume]_vars /\ WF_vars(NextResume)

(***************************************************************************)
(* ProgramExecutor.execute alone: any program of at most ExecMaxSize       *)
(* instructions over a turn, the two actions that matter on a corridor and *)
(* both calls, on a level that is solved in two items, one solved in       *)
(* three, and one that has no light; max_steps from 0 up to ExecMaxSteps.  *)
(***************************************************************************)
ExecMaxSize == 4

ExecMaxSteps == 5

ExecLevelIds == {1, 3, 8}

ExecInstructions == {WALK, LIGHT, TURN_LEFT, PROC1, PROC2}

ExecSeqs(n) == [1..n -> ExecInstructions]

ExecPrograms(size) ==
  UNION {{Program(m, p1, p2) : m \in ExecSeqs(d[1]), p1 \in ExecSeqs(d[2]),
                               p2 \in ExecSeqs(d[3])} :
         d \in {t \in (0..size) \X (0..size) \X (0..size) : t[1] + t[2] + t[3] <= size}}

InitExecOf(size) ==
  /\ level \in ExecLevelIds
  /\ max_instructions = DefaultMaxInstructions
  /\ bfs = BfsIdle
  /\ ids = IdsIdle
  /\ max_size = 0
  /\ max_exec_steps \in 0..ExecMaxSteps
  /\ ps = SolverIdle
  /\ os = SolverIdle
  /\ fs = FastIdle
  /\ rs = ResInit
  /\ ckpt = None
  /\ ref = ResInit
  /\ audit = AuditInit
  /\ exec_program \in ExecPrograms(size)
  /\ ex = ExecIdle(Lv)
  /\ file = None
  /\ call = NoCall
  /\ codec = NoCodec
  /\ eg = NoEngines

InitExec == InitExecOf(ExecMaxSize)

NextExec ==
  \/ ExecStart
  \/ ExecStep
  \/ ExecReturn

SpecExec == InitExec /\ [][NextExec]_vars

\* The caller of execute() runs the loop to its end: nothing else is
\* scheduled in the executor's thread.
ExecFairSize == 3

InitExecFair == InitExecOf(ExecFairSize)

SpecExecFair == InitExecFair /\ [][NextExec]_vars /\ WF_vars(NextExec)

\* One executor called again and again, with the engine stepped by the
\* caller in between.
ExecAgainSize == 2

ExecNextSize == 1

InitExecAgain == InitExecOf(ExecAgainSize)

NextExecAgain ==
  \/ ExecStart
  \/ ExecStep
  \/ ExecReturn
  \/ ExecAgain(ExecPrograms(ExecNextSize))
  \/ ExecDisturb

SpecExecAgain == InitExecAgain /\ [][NextExecAgain]_vars

(***************************************************************************)
(* Chains of solve() calls with either value of resume, on a checkpoint    *)
(* directory that holds no file for the level, a checkpoint of the level,  *)
(* a checkpoint with another level id, or a damaged file.                  *)
(***************************************************************************)
CkptMaxSize == 3

CkptLevelIds == {1, 6}

\* A checkpoint as a timed-out call leaves it: size 1, two programs tested.
SampleCheckpoint(level_index) ==
  [f \in FieldSet |->
     CASE f = "level" -> IntV(level_index)
       [] f \in {"current_size", "current_main_size"} -> IntV(1)
       [] f \in {"programs_tested", "main_index"} -> IntV(2)
       [] f = "time_spent" -> FloatV(125)
       [] OTHER -> IntV(0)]

\* The members of a dict without those of one key.
WithoutKey(members, key) == SelectSeq(members, LAMBDA m : m[1] # key)

\* The files a call may find: none; the text of a checkpoint of this level
\* or of another; texts that are no JSON (empty, cut off); JSON that is no
\* object; objects with a field missing or a member too many.
InitialFiles(level_index) ==
  LET good == ToDict(SampleCheckpoint(level_index))
  IN { None,
       Save(SampleCheckpoint(level_index)),
       Save(SampleCheckpoint(level_index + 1)),
       Some(<<>>),
       Some(SubSeq(JsonDump(good), 1, 5)),
       Some(<<Punct("["), Punct("]")>>),
       Some(<<Null>>),
       Some(<<Num(<<"3">>)>>),
       Some(JsonDump(WithoutKey(good, "programs_tested"))),
       Some(JsonDump(WithoutKey(good, "main_index"))),
       Some(JsonDump(Append(good, <<"extra", IntV(1)>>))) }

InitCkpt ==
  /\ level \in CkptLevelIds
  /\ max_instructions = DefaultMaxInstructions
  /\ bfs = BfsIdle
  /\ ids = IdsIdle
  /\ max_size \in 1..CkptMaxSize
  /\ max_exec_steps = MaxExecSteps
  /\ ps = SolverIdle
  /\ os = SolverIdle
  /\ fs = FastIdle
  /\ rs = ResInit
  /\ ckpt = None
  /\ ref = ResInit
  /\ audit = AuditInit
  /\ exec_program = NoProgram
  /\ ex = ExecIdle(Lv)
  /\ file \in InitialFiles(level)
  /\ call = NoCall
  /\ codec = NoCodec
  /\ eg = NoEngines

NextCkpt ==
  \/ CkSolve
  \/ CkDistStart
  \/ CkCandidate

SpecCkpt == InitCkpt /\ [][NextCkpt]_vars

(***************************************************************************)
(* save() then load() of one SolverCheckpoint: ints with one digit and     *)
(* with several, with and without a sign; a time_spent that is a float     *)
(* with no, one or two decimals, or an int.                                *)
(***************************************************************************)
CodecValues ==
  {[f \in FieldSet |->
      CASE f = "level" -> IntV(v[1])
        [] f = "current_size" -> IntV(v[2])
        [] f = "current_main_size" -> IntV(v[3])
        [] f = "current_p1_size" -> IntV(v[4])
        [] f = "current_p2_size" -> IntV(v[2] - v[3] - v[4])
        [] f = "programs_tested" -> IntV(v[5])
        [] f = "time_spent" -> v[6]
        [] f = "main_index" -> IntV(v[7])
        [] f = "p1_index" -> IntV(v[8])
        [] f = "p2_index" -> IntV(v[9])] :
   v \in {-1, 0, 12} \X {4, 12} \X {1, 2} \X {0, 2} \X {0, 9999, 10000, 123456}
         \X ({FloatV(h) : h \in {0, 5, 50, 125, 6005, 100000}} \cup {IntV(7)})
         \X {0, 101} \X {0, 25} \X {0, 7}}

InitCodec ==
  /\ level = 1
  /\ max_instructions = DefaultMaxInstructions
  /\ bfs = BfsIdle
  /\ ids = IdsIdle
  /\ max_size = 0
  /\ max_exec_steps = 0
  /\ ps = SolverIdle
  /\ os = SolverIdle
  /\ fs = FastIdle
  /\ rs = ResInit
  /\ ckpt = None
  /\ ref = ResInit
  /\ audit = AuditInit
  /\ exec_program = NoProgram
  /\ ex = ExecIdle(Lv)
  /\ file \in {None, Some(<<>>)}
  /\ call = NoCall
  /\ codec \in {[pc |-> "made", value |-> Some(c), loaded |-> LoadReturns(None)] :
                  c \in CodecValues}
  /\ eg = NoEngines

NextCodec ==
  \/ CodecSave
  \/ CodecLoad

SpecCodec == InitCodec /\ [][NextCodec]_vars

\* BFSSolver.solve alone, with bounds that no level's search comes near.
HugeMaxInstructions == 1000

InitBfsFair ==
  /\ level \in LevelIds
  /\ max_instructions \in {DefaultMaxInstructions, HugeMaxInstructions}
  /\ bfs = BfsIdle
  /\ ids = IdsIdle
  /\ max_size = 0
  /\ max_exec_steps = 0
  /\ ps = SolverIdle
  /\ os = SolverIdle
  /\ fs = FastIdle
  /\ rs = ResInit
  /\ ckpt = None
  /\ ref = ResInit
  /\ audit = AuditInit
  /\ exec_program = NoProgram
  /\ ex = ExecIdle(Lv)
  /\ file = None
  /\ call = NoCall
  /\ codec = NoCodec
  /\ eg = NoEngines

NextBfsFair == BfsStart \/ BfsExpand \/ BfsExhausted

\* The while loop goes on for as long as it has an iteration to make.
SpecBfsFair == InitBfsFair /\ [][NextBfsFair]_vars /\ WF_vars(NextBfsFair)

\* One engine of a level, stepped with any value and reset, in any order.
EngineLevelIds == {2, 4, 5, 7, 10}

InitEngineOn(ids_) ==
  /\ level \in ids_
  /\ max_instructions = 0
  /\ bfs = BfsIdle
  /\ ids = IdsIdle
  /\ max_size = 0
  /\ max_exec_steps = 0
  /\ ps = SolverIdle
  /\ os = SolverIdle
  /\ fs = FastIdle
  /\ rs = ResInit
  /\ ckpt = None
  /\ ref = ResInit
  /\ audit = AuditInit
  /\ exec_program = NoProgram
  /\ ex = ExecIdle(Lv)
  /\ file = None
  /\ call = NoCall
  /\ codec = NoCodec
  /\ eg = NewEngineAt(LevelHeap(Lv), Lv, "A")

InitEngine == InitEngineOn(EngineLevelIds)

NextEngine == EngineStep \/ EngineReset

SpecEngine == InitEngine /\ [][NextEngine]_vars

\* An engine and its clone, each stepped and reset, in any order.
CloneLevelIds == {5, 7}

InitClone == InitEngineOn(CloneLevelIds)

NextClone == EngineStep \/ EngineReset \/ EngineClone

SpecClone == InitClone /\ [][NextClone]_vars


(***************************************************************************)
(* Properties of the flat solvers (SpecFlat).                              *)
(***************************************************************************)
\* All sequences of length n over the set S.
SeqsOf(S, n) == [1..n -> S]

Primitives == {BASIC_INSTRUCTIONS[i] : i \in 1..Len(BASIC_INSTRUCTIONS)}

\* Two optional sequences: both None, or both sequences of one length.
SameLength(a, b) ==
  \/ a = None /\ b = None
  \/ a # None /\ b # None /\ Len(a[1]) = Len(b[1])

\* C3: once BFSSolver.solve(b) and IDSSolver.solve(b) have both returned on
\* the same level, either both results are None or both are sequences of
\* the same length.
C3_BfsIdsSameLength ==
  (bfs.pc = "done" /\ ids.pc = "done") => SameLength(bfs.result, ids.result)

\* Some sequence of exactly n primitives, replayed by run_solution, solves lv.
SolvableIn(lv, n) == \E s \in SeqsOf(Primitives, n) : RunSolution(lv, s)

\* C4: when BFSSolver.solve(b) has returned a sequence, run_solution accepts
\* it, it has at most b instructions and no shorter sequence of primitives
\* solves the level; when it has returned None, no sequence of at most b
\* primitives solves the level.
C4_BfsShortest ==
  (bfs.pc = "done" /\ ids.pc = "wait") =>
    IF bfs.result = None
    THEN \A n \in 0..max_instructions : ~SolvableIn(Lv, n)
    ELSE /\ RunSolution(Lv, bfs.result[1])
         /\ Len(bfs.result[1]) <= max_instructions
         /\ \A n \in 0..(Len(bfs.result[1]) - 1) : ~SolvableIn(Lv, n)


(***************************************************************************)
(* Properties of the procedure solvers, under SpecProc.                    *)
(***************************************************************************)
Instructions == {ALL_INSTRUCTIONS[i] : i \in 1..Len(ALL_INSTRUCTIONS)}

\* Some program of total size n with a non-empty MAIN, whatever its
\* procedures hold, leaves the level solved within the step budget.
SolvesWithin(lv, n, max_steps) ==
  \E m \in 1..n : \E a \in 0..(n - m) :
    \E main \in SeqsOf(Instructions, m) :
    \E proc1 \in SeqsOf(Instructions, a) :
    \E proc2 \in SeqsOf(Instructions, n - m - a) :
      Execute(lv, Program(main, proc1, proc2), max_steps).solved

SameSize(a, b) ==
  \/ a = None /\ b = None
  \/ a # None /\ b # None /\ TotalSize(a[1]) = TotalSize(b[1])

\* C5: when ProcedureSolver.solve(max_size) returns a program, it solves the
\* level within max_exec_steps, is no larger than max_size, and no program
\* of smaller total size (validity check or not) solves within the budget;
\* when it returns None, no program of total size at most max_size does.
C5_ProcMinimalSize ==
  (ps.pc = "done" /\ os.pc = "wait") =>
    IF ps.result = None
    THEN \A n \in 1..max_size : ~SolvesWithin(Lv, n, max_exec_steps)
    ELSE /\ Execute(Lv, ps.result[1], max_exec_steps).solved
         /\ TotalSize(ps.result[1]) <= max_size
         /\ \A n \in 1..(TotalSize(ps.result[1]) - 1) :
              ~SolvesWithin(Lv, n, max_exec_steps)

\* ProcedureSolver has returned a recursive program of MaxSize instructions.
C5_Witness ==
  /\ ps.pc = "done" /\ os.pc = "wait"
  /\ ps.result # None
  /\ TotalSize(ps.result[1]) = MaxSize
  /\ In(PROC2, ps.result[1].proc2)

\* C6: when OptimizedProcedureSolver.solve has returned, its program has the
\* total size of the program ProcedureSolver.solve returned for the same
\* level, max_size and step budget, or both returned None.
C6_OptimizedSameSize ==
  (os.pc = "done") => SameSize(os.result, ps.result)

\* C7: when FastProcedureSolver.solve has returned, its program has the
\* total size of the program ProcedureSolver.solve returned for the same
\* level, max_size and step budget, or both returned None.
C7_FastSameSize ==
  (fs.pc = "done") => SameSize(fs.result, ps.result)

\* Both solvers have returned a program with a procedure, found by
\* different enumerations (PROC1 for the fast solver, PROC2 for the plain).
C7_Witness ==
  /\ fs.pc = "done"
  /\ fs.result # None /\ ps.result # None
  /\ fs.result[1].proc1 # <<>>
  /\ ps.result[1].proc2 # <<>>

\* A straight corridor: one column, the bot on the plain first tile facing
\* along it, every other tile a light of the same height.
IsCorridor(lv) ==
  LET m == LEVELS[lv].map
  IN /\ Len(m) >= 2
     /\ \A r \in 1..Len(m) : Len(m[r]) = 1 /\ m[r][1].h = m[1][1].h
     /\ m[1][1].t = TILE_BASIC
     /\ \A r \in 2..Len(m) : m[r][1].t = TILE_LIGHT
     /\ LEVELS[lv].position = <<0, Len(m) - 1>>
     /\ LEVELS[lv].direction = 0

\* The number of lights of a corridor.
CorridorLights(lv) == Len(LEVELS[lv].map) - 1

\* C10: on a corridor of N >= 3 lights, with max_size and the step budget
\* large enough for the recursive program (4 instructions, 3N steps),
\* BFSSolver.solve returns 2N instructions and ProcedureSolver.solve returns
\* a program of strictly smaller total size.
C10_CorridorRecursion ==
  (/\ ps.pc = "done" /\ os.pc = "wait"
   /\ IsCorridor(level) /\ CorridorLights(level) >= 3
   /\ max_size >= 4 /\ max_exec_steps >= 3 * CorridorLights(level)) =>
    /\ bfs.result # None
    /\ Len(bfs.result[1]) = 2 * CorridorLights(level)
    /\ ps.result # None
    /\ TotalSize(ps.result[1]) < Len(bfs.result[1])

\* ProcedureSolver has returned on the corridor of four lights, where the
\* flat solution has eight instructions.
C10_Witness ==
  /\ ps.pc = "done" /\ os.pc = "wait"
  /\ IsCorridor(level) /\ CorridorLights(level) = 4
  /\ ps.result # None /\ bfs.result # None
  /\ Len(bfs.result[1]) = 8
  /\ TotalSize(ps.result[1]) = 4

(***************************************************************************)
(* Properties of the resumable solver, under SpecResume.                   *)
(***************************************************************************)
\* C1: from the first session up to the first session that returns without
\* a timeout, every candidate a session executes is the next candidate of
\* the uninterrupted solve(), and when that session returns, the
\* uninterrupted solve() has no candidate left and returns the same result.
C1_ExactResume ==
  (rs.pc # "idle" /\ ~audit.closed) =>
    /\ rs.executed = ref.executed
    /\ (rs.pc = "returned" /\ ~rs.timed_out) =>
         (ref.pc = "return" /\ ref.solution = rs.solution)

\* A session resumed inside a distribution, past the first p2 sequence, has
\* gone on to find the solution.
C1_Witness ==
  /\ ~audit.closed
  /\ rs.pc = "returned" /\ ~rs.timed_out
  /\ rs.initially_resumed
  /\ rs.start[3] > 0
  /\ rs.solution # None
  /\ audit.earlier # None /\ audit.pos # None

\* C2: a session never executes a candidate at or before the place the
\* earlier sessions of the chain have reached.
C2_NoReexecution ==
  (audit.pos # None /\ audit.earlier # None) =>
    PosLess(audit.earlier[1], audit.pos[1])

\* C8: a session of the resumable solver that returns without a timeout
\* returns a program of the total size of ProcedureSolver.solve's program,
\* or None when ProcedureSolver.solve returned None.
C8_ResumableSameSize ==
  (rs.pc = "returned" /\ ~rs.timed_out) =>
    SameSize(rs.solution, ps.result)

\* A resumed session has returned a recursive program of the size
\* ProcedureSolver found.
C8_Witness ==
  /\ rs.pc = "returned" /\ ~rs.timed_out /\ ~audit.closed
  /\ rs.initially_resumed
  /\ rs.solution # None /\ ps.result # None
  /\ TotalSize(rs.solution[1]) = TotalSize(ps.result[1])
  /\ In(PROC2, rs.solution[1].proc2)

\* C9: each of the four solvers, at the moment its solve() has returned a
\* program, has returned one that ProgramExecutor.execute on a fresh engine
\* of the level reports solved within the solver's step budget.
C9_ReturnedProgramsSolve ==
  /\ (ps.pc = "done" /\ os.pc = "wait" /\ ps.result # None) =>
       Execute(Lv, ps.result[1], max_exec_steps).solved
  /\ (os.pc = "done" /\ fs.pc = "wait" /\ os.result # None) =>
       Execute(Lv, os.result[1], max_exec_steps).solved
  /\ (fs.pc = "done" /\ rs.pc = "idle" /\ fs.result # None) =>
       Execute(Lv, fs.result[1], max_exec_steps).solved
  /\ (rs.pc = "returned" /\ rs.solution # None) =>
       Execute(Lv, rs.solution[1], max_exec_steps).solved

\* All four solvers have returned a program of MaxSize instructions, the
\* resumable solver in a resumed session.
C9_Witness ==
  /\ rs.pc = "returned" /\ rs.initially_resumed
  /\ ps.result # None /\ os.result # None /\ fs.result # None /\ rs.solution # None
  /\ TotalSize(ps.result[1]) = MaxSize /\ TotalSize(os.result[1]) = MaxSize
  /\ TotalSize(fs.result[1]) = MaxSize /\ TotalSize(rs.solution[1]) = MaxSize


(***************************************************************************)
(* ProgramExecutor.execute against the unfolding of the program.           *)
(***************************************************************************)
RECURSIVE Unfold(_, _, _)
\* The first n items an execution of seq consumes, written without a
\* queue: an instruction, then (for a call) the items of the called body,
\* then the items of what follows.
Unfold(seq, prog, n) ==
  IF n = 0 \/ seq = <<>>
  THEN <<>>
  ELSE LET h == Head(seq)
           inner == IF IsCall(h) THEN Unfold(ProcBody(prog, h), prog, n - 1) ELSE <<>>
       IN <<h>> \o inner \o Unfold(Tail(seq), prog, n - 1 - Len(inner))

RECURSIVE EngAfter(_, _, _)
\* The engine after the primitives among items are stepped in order from e.
EngAfter(lv, e, items) ==
  IF items = <<>>
  THEN e
  ELSE EngAfter(lv, IF IsCall(Head(items)) THEN e ELSE Step(lv, e, Head(items)).eng,
                Tail(items))

\* The items the run would consume if it never stopped for a solved level.
Unfolded == Unfold(exec_program.main, exec_program, max_exec_steps)

\* The level is solved once the first j items of the unfolding are consumed.
SolvedAfter(j) == IsSolved(Lv, EngAfter(Lv, InitFromLevel(Lv), SubSeq(Unfolded, 1, j)))

\* The numbers of consumed items after which the level is solved.
SolvedAt == {j \in 1..Len(Unfolded) : SolvedAfter(j)}

\* C11: execute stops at the first consumed item after which the level is
\* solved: it returns (True, k) with k the number of items consumed up to and
\* including that item, and the engine is the one after exactly those k
\* items, so the instructions still pending in the queue were not applied.
C11_StopsWhenSolved ==
  (ex.pc = "done" /\ SolvedAt # {}) =>
    LET k == CHOOSE j \in SolvedAt : \A i \in SolvedAt : j <= i
    IN /\ ex.result = Some(<<TRUE, k>>)
       /\ ex.consumed = SubSeq(Unfolded, 1, k)
       /\ ex.eng = EngAfter(Lv, InitFromLevel(Lv), SubSeq(Unfolded, 1, k))

\* A run on OneStep that returned (True, 3) inside a called procedure, with
\* a WALK still pending that would have moved the bot off the light.
C11_Witness ==
  /\ ex.pc = "done"
  /\ level = 1
  /\ ex.result = Some(<<TRUE, 3>>)
  /\ exec_program.main = <<PROC1>>
  /\ ex.consumed = <<PROC1, WALK, LIGHT>>
  /\ ex.queue # <<>>
  /\ Head(ex.queue) = WALK
  /\ max_exec_steps > 3

\* Longer than the unfolding of any program of ExecMaxSize instructions that
\* comes to an end.
UnfoldProbe == 16

\* The queue never empties: the unfolding of the program does not end.
QueueNeverEmpties ==
  Len(Unfold(exec_program.main, exec_program, UnfoldProbe)) = UnfoldProbe

\* The level is solved neither at the start nor after any consumed item.
NeverSolved == \A j \in 0..Len(Unfolded) : ~SolvedAfter(j)

\* C12: execute always terminates and never consumes more than max_steps
\* queue items; a program that never solves the level and whose queue never
\* empties returns (False, max_steps).
C12_TerminatesWithinMaxSteps ==
  /\ <>(ex.pc = "done")
  /\ [](ex.steps <= max_exec_steps /\ Len(ex.consumed) = ex.steps)
  /\ []((ex.pc = "done" /\ QueueNeverEmpties /\ NeverSolved)
          => ex.result = Some(<<FALSE, max_exec_steps>>))

\* MAIN=[PROC1], PROC1=[TURN_LEFT, PROC1] on OneStep ran to the largest
\* max_steps and returned.
C12_Witness ==
  /\ ex.pc = "done"
  /\ level = 1
  /\ exec_program = Program(<<PROC1>>, <<TURN_LEFT, PROC1>>, <<>>)
  /\ max_exec_steps = ExecMaxSteps
  /\ ex.steps = ExecMaxSteps
  /\ ex.queue # <<>>

\* C13: a call is replaced by the procedure body in front of the remaining
\* queue, so the items are consumed in the order of the leftmost inline
\* expansion of the program, and the returned step count counts every
\* consumed item once, the PROC1 and PROC2 calls as well as the primitives.
C13_InlineExpansionOrder ==
  (ex.pc = "done") =>
    /\ ex.consumed = SubSeq(Unfolded, 1, ex.steps)
    /\ ex.result[1][2] = Len(ex.consumed)
    /\ ex.eng = EngAfter(Lv, InitFromLevel(Lv), ex.consumed)

\* MAIN=[PROC1], PROC1=[WALK, LIGHT] on OneStep returned (True, 3): the call,
\* the WALK and the LIGHT.
C13_Witness ==
  /\ ex.pc = "done"
  /\ level = 1
  /\ exec_program = Program(<<PROC1>>, <<WALK, LIGHT>>, <<>>)
  /\ ex.result = Some(<<TRUE, 3>>)

\* A call in the middle of MAIN whose body ran before the rest of MAIN.
C13_NestedWitness ==
  /\ ex.pc = "done"
  /\ exec_program.main = <<PROC1, LIGHT>>
  /\ exec_program.proc1 = <<PROC2>>
  /\ exec_program.proc2 = <<WALK>>
  /\ ex.consumed = <<PROC1, PROC2, WALK, LIGHT>>

(***************************************************************************)
(* The static validity check and the programs the solvers execute.         *)
(***************************************************************************)
\* A non-empty procedure that nothing refers to: neither MAIN, nor the other
\* procedure, nor itself.
DeadProcedure(callee, body, main, other) ==
  /\ body # <<>>
  /\ \A i \in 1..Len(main) : main[i] # callee
  /\ \A i \in 1..Len(other) : other[i] # callee
  /\ \A i \in 1..Len(body) : body[i] # callee

\* The program fails the static validity check.
FailsStaticCheck(pr) ==
  \/ pr.proc1 = <<PROC1>>
  \/ pr.proc2 = <<PROC2>>
  \/ (pr.proc1 = <<PROC2>> /\ pr.proc2 = <<PROC1>>)
  \/ DeadProcedure(PROC1, pr.proc1, pr.main, pr.proc2)
  \/ DeadProcedure(PROC2, pr.proc2, pr.main, pr.proc1)

\* The candidate ProcedureSolver is at.
ProcAt == CandidateAt(Distributions(ps.size)[ps.di], ps.mi, ps.pi, ps.p2i)

\* The candidate OptimizedProcedureSolver is at.
OptAt == CandidateAt(SortedDistributions(os.size)[os.di], os.mi, os.pi, os.p2i)

\* The candidate ResumableProcedureSolver is at.
ResAt ==
  ResProgramAt(<<rs.current_main_size, rs.current_p1_size, rs.current_p2_size>>,
               rs.main_index, rs.p1_index, rs.p2_index)

\* C14: ProcedureSolver, OptimizedProcedureSolver and
\* ResumableProcedureSolver never execute a program that fails the static
\* validity check: the candidate each of them is about to hand to the
\* executor, and the program the resumable solver's latest step executed,
\* pass it.
C14_NeverExecutesInvalid ==
  /\ (ps.pc = "search" /\ IsValidProgram(ProcAt)) => ~FailsStaticCheck(ProcAt)
  /\ (os.pc = "search" /\ IsValidProgram(OptAt)) => ~FailsStaticCheck(OptAt)
  /\ (rs.pc = "cand" /\ IsValidProgram(ResAt)) => ~FailsStaticCheck(ResAt)
  /\ rs.executed # None => ~FailsStaticCheck(rs.executed[1])

\* The resumable solver, having executed programs, stands at
\* MAIN=[PROC1, PROC2], PROC1=[PROC2], PROC2=[PROC1], which it will skip.
C14_Witness ==
  /\ rs.pc = "cand"
  /\ rs.programs_tested > 0
  /\ ResAt = Program(<<PROC1, PROC2>>, <<PROC2>>, <<PROC1>>)
  /\ ~IsValidProgram(ResAt)

(***************************************************************************)
(* The checkpoint a timed-out session leaves, against the enumeration      *)
(* written as an order of places.                                          *)
(***************************************************************************)
\* The first place of the enumeration.
FirstPos == <<1, 1, 0, 0, 0>>

\* The place after q: the p2 index moves fastest, then the p1 index, the
\* main index, the distribution within the sorted list, the total size.
NextPos(q) ==
  LET n == ResSeqCounts(ResDistributions(q[1])[q[2]])
  IN IF q[5] + 1 < n[3] THEN <<q[1], q[2], q[3], q[4], q[5] + 1>>
     ELSE IF q[4] + 1 < n[2] THEN <<q[1], q[2], q[3], q[4] + 1, 0>>
     ELSE IF q[3] + 1 < n[1] THEN <<q[1], q[2], q[3] + 1, 0, 0>>
     ELSE IF q[2] + 1 <= Len(ResDistributions(q[1])) THEN <<q[1], q[2] + 1, 0, 0, 0>>
     ELSE <<q[1] + 1, 1, 0, 0, 0>>

\* The candidate at place q.
ProgramAtPos(q) == ResProgramAt(ResDistributions(q[1])[q[2]], q[3], q[4], q[5])

RECURSIVE NothingToExecuteBefore(_, _)
\* From place q on, no candidate that the search executes comes before
\* place p, and p is reached.
NothingToExecuteBefore(q, p) ==
  IF q = p THEN TRUE
  ELSE IF q[1] > max_size THEN FALSE
  ELSE IF IsValidProgram(ProgramAtPos(q)) THEN FALSE
  ELSE NothingToExecuteBefore(NextPos(q), p)

\* The place a checkpoint addresses.
CheckpointPos(c) ==
  <<c.current_size,
    StartIdx(ResDistributions(c.current_size),
             <<c.current_main_size, c.current_p1_size, c.current_p2_size>>),
    c.main_index, c.p1_index, c.p2_index>>

\* C15: whenever solve() returns with timed_out = True, the returned program
\* is None and a checkpoint of the level is in the file; the place it
\* addresses (total size, distribution, three indices) comes after every
\* candidate executed by this session and the sessions it was resumed from,
\* with no candidate left to execute before it; and its programs_tested is
\* the number of candidates those sessions executed.
C15_TimeoutCheckpoint ==
  (rs.pc = "returned" /\ rs.timed_out) =>
    /\ rs.solution = None
    /\ ckpt # None
    /\ ckpt[1].level = level
    /\ <<ckpt[1].current_main_size, ckpt[1].current_p1_size, ckpt[1].current_p2_size>>
         = ResDistributions(ckpt[1].current_size)[CheckpointPos(ckpt[1])[2]]
    /\ NothingToExecuteBefore(IF LastExecuted(audit) = None THEN FirstPos
                              ELSE NextPos(LastExecuted(audit)[1]),
                              CheckpointPos(ckpt[1]))
    /\ ckpt[1].programs_tested = audit.tested

\* A session resumed from a checkpoint executed candidates of a
\* distribution with a procedure and timed out in its turn.
C15_Witness ==
  /\ rs.pc = "returned"
  /\ rs.timed_out
  /\ rs.initially_resumed
  /\ audit.pos # None
  /\ audit.base_last # None
  /\ ckpt # None
  /\ ckpt[1].current_p1_size > 0
  /\ ckpt[1].programs_tested > CheckPeriod

\* C16: when solve() finds a solving program it returns that program with
\* timed_out = False, and after the call no checkpoint of the level is in
\* the file, whether or not one was there before the call.
C16_SolutionDeletesCheckpoint ==
  (rs.pc = "returned" /\ rs.solution # None) =>
    /\ ~rs.timed_out
    /\ rs.executed = rs.solution
    /\ Execute(Lv, rs.solution[1], max_exec_steps).solved
    /\ ckpt = None

\* A session that was resumed from a checkpoint, so that the file was there
\* before the call, found a solution of the largest size after executing
\* candidates of its own.
C16_Witness ==
  /\ rs.pc = "returned"
  /\ rs.solution # None
  /\ rs.initially_resumed
  /\ audit.base_last # None
  /\ audit.tested > CheckPeriod
  /\ TotalSize(rs.solution[1]) = MaxSize

(***************************************************************************)
(* The life of the checkpoint file.                                        *)
(***************************************************************************)
\* The file holds a checkpoint that load() returns and whose level is the
\* solver's.
IsCheckpointOfLevel(f) ==
  /\ ~Load(f).raised
  /\ Load(f).checkpoint # None
  /\ Load(f).checkpoint[1].level = IntV(level)

\* C17: a checkpoint of a level is written only by a solve() call that ends
\* in a timeout; a checkpoint left by an earlier call is deleted when a call
\* finds a solution or when a fresh run (resume=False) is made: after a
\* resume=False call has returned, no checkpoint written by an earlier call
\* remains.
C17_CheckpointLifecycle ==
  /\ call.saved => (rs.pc = "returned" /\ rs.timed_out)
  /\ (rs.pc # "idle" /\ file # call.before /\ file # None) => call.saved
  /\ (rs.pc = "returned" /\ rs.solution # None) => file = None
  /\ (rs.pc = "returned" /\ ~call.resume /\ IsCheckpointOfLevel(file)) => call.saved

\* The part of C17 that holds: the file changes only by the save of a call
\* that timed out or by the delete of a call that found a solution.
C17_WrittenOnlyOnTimeout ==
  /\ call.saved => (rs.pc = "returned" /\ rs.timed_out)
  /\ (rs.pc # "idle" /\ file # call.before /\ file # None) => call.saved
  /\ (rs.pc = "returned" /\ rs.solution # None) => file = None
  /\ (rs.pc # "idle" /\ file # call.before /\ file = None)
       => (rs.pc = "returned" /\ rs.solution # None)

\* A resume=False call that searched every size up to max_size, found
\* nothing and returned with the earlier file still in place.
C17_StaleAfterFreshRun ==
  /\ rs.pc = "returned"
  /\ ~call.resume
  /\ ~rs.timed_out
  /\ rs.solution = None
  /\ IsCheckpointOfLevel(file)
  /\ file = call.before
  /\ Load(file).checkpoint[1].programs_tested.n = 0

\* The call entered the search as a fresh run does: total size 1,
\* distribution (1, 0, 0), indices (0, 0, 0), programs_tested 0,
\* time_spent 0, resumed False.
EnteredFresh ==
  /\ call.entered # None
  /\ call.entered[1].current_size = 1
  /\ <<call.entered[1].current_main_size, call.entered[1].current_p1_size,
       call.entered[1].current_p2_size>> = <<1, 0, 0>>
  /\ <<call.entered[1].main_index, call.entered[1].p1_index,
       call.entered[1].p2_index>> = <<0, 0, 0>>
  /\ call.entered[1].programs_tested = 0
  /\ PyEq(call.entered_time, IntV(0))
  /\ ~call.entered[1].initially_resumed
  /\ ~call.entered[1].skip_to_saved_position
  /\ ~rs.initially_resumed

\* C18: if the checkpoint that solve(resume=True) loads carries a level id
\* other than the solver's level_index, the run is a fresh run: it starts at
\* total size 1, distribution (1, 0, 0), indices (0, 0, 0), programs_tested
\* 0 and time_spent 0, and reports resumed = False.
C18_ForeignLevelRunsFresh ==
  (rs.pc # "idle" /\ call.resume /\ call.loaded # None
     /\ ~PyEq(call.loaded[1].level, IntV(level)))
    => (~call.raised /\ EnteredFresh)

\* A call that loaded the checkpoint of another level (programs_tested 2,
\* time_spent 1.25) has searched and returned with a time_spent that counts
\* this call only.
C18_Witness ==
  /\ rs.pc = "returned"
  /\ call.resume
  /\ call.loaded # None
  /\ call.loaded[1].level = IntV(level + 1)
  /\ call.loaded[1].programs_tested = IntV(2)
  /\ rs.programs_tested > 2
  /\ call.time_spent = FloatV(125)

\* The file is corrupt: no JSON, or JSON that is no object, or an object
\* that lacks a field without default or has a member that is no field.
IsCorrupt(f) ==
  /\ f # None
  /\ LET j == JsonLoad(f[1])
         keys == {j.members[i][1] : i \in 1..Len(j.members)}
     IN \/ ~j.ok
        \/ j.kind # "object"
        \/ ~(RequiredFields \subseteq keys)
        \/ ~(keys \subseteq FieldSet)

\* C19: if the checkpoint file of the level is corrupt, solve(resume=True)
\* does not raise: load yields no checkpoint and the run is a fresh run.
C19_CorruptFileRunsFresh ==
  (rs.pc # "idle" /\ call.resume /\ IsCorrupt(call.before))
    => (~call.raised /\ call.loaded = None /\ EnteredFresh)

\* The part of C19 that holds: a file that is no JSON is taken for no
\* checkpoint and the run is fresh.
C19_InvalidJsonRunsFresh ==
  (rs.pc # "idle" /\ call.resume /\ call.before # None /\ ~JsonLoad(call.before[1]).ok)
    => (~call.raised /\ call.loaded = None /\ EnteredFresh)

\* solve(resume=True) raised on a file that is an object without
\* programs_tested.
C19_RaisedOnMissingField ==
  /\ rs.pc = "raised"
  /\ call.raised
  /\ call.resume
  /\ JsonLoad(call.before[1]).kind = "object"
  /\ \A i \in 1..Len(JsonLoad(call.before[1]).members) :
        JsonLoad(call.before[1]).members[i][1] # "programs_tested"

\* C20: save followed by load on the same path returns a checkpoint whose
\* ten fields all equal the saved ones.
C20_RoundTrip ==
  (codec.pc = "loaded") =>
    /\ ~codec.loaded.raised
    /\ codec.loaded.checkpoint # None
    /\ \A f \in FieldSet :
         /\ PyEq(codec.loaded.checkpoint[1][f], codec.value[1][f])
         /\ codec.loaded.checkpoint[1][f].ty = codec.value[1][f].ty

\* A checkpoint with a negative level, programs_tested 10000 and time_spent
\* 60.05 went through a file that held other text before.
C20_Witness ==
  /\ codec.pc = "loaded"
  /\ codec.value[1].level = IntV(-1)
  /\ codec.value[1].programs_tested = IntV(10000)
  /\ codec.value[1].time_spent = FloatV(6005)
  /\ codec.value[1].p1_index = IntV(25)
  /\ Len(file[1]) = 41

(***************************************************************************)
(* The engine's instructions, one call at a time.  In a step of the        *)
(* specification that is a call of step(), eg'.last names the engine, the  *)
(* value passed and the outcome; Before and After are that engine's fields *)
(* on the two sides of the call.                                           *)
(***************************************************************************)
Stepped(instruction) ==
  /\ eg'.last.op = "step"
  /\ eg'.last.instruction = instruction

Before == View(eg, eg'.last.who)

After == View(eg', eg'.last.who)

\* The cell the engine e faces lies in the grid.
FacesCell(e) ==
  LET t == GetTargetPosition(e)
  IN 0 <= t[1] /\ t[1] < MapWidth(Lv) /\ 0 <= t[2] /\ t[2] < MapHeight(Lv)

BotCell(e) == <<e.bot_x, e.bot_y>>

\* C21: WALK returns True and moves the bot to the cell it faces exactly
\* when that cell is in the grid and as high as the bot's cell; in every
\* other case it returns False and no field of the engine changes.
C21_Walk ==
  [][Stepped(WALK) =>
       LET e == Before
           t == GetTargetPosition(e)
           ok == FacesCell(e) /\ e.map_data[t].h = e.map_data[BotCell(e)].h
       IN /\ ~eg'.last.raised
          /\ eg'.last.ret = ok
          /\ After = IF ok THEN [e EXCEPT !.bot_x = t[1], !.bot_y = t[2]] ELSE e]_vars

\* On the Playground the bot walked from the raised elevator onto the light
\* of height 4 beside it.
C21_Witness ==
  /\ level = 10
  /\ eg.last.op = "step"
  /\ eg.last.instruction = WALK
  /\ eg.last.ret
  /\ BotCell(View(eg, "A")) = <<1, 1>>
  /\ View(eg, "A").map_data[<<1, 0>>].h = 4

\* C22: JUMP returns True and moves the bot to the cell it faces exactly
\* when that cell is in the grid and either one higher than the bot's cell
\* or lower than it; on equal heights, on a rise of two or more and off the
\* grid it returns False and no field of the engine changes.
C22_Jump ==
  [][Stepped(JUMP) =>
       LET e == Before
           t == GetTargetPosition(e)
           current == e.map_data[BotCell(e)].h
           ok == FacesCell(e) /\ (e.map_data[t].h = current + 1
                                    \/ current > e.map_data[t].h)
       IN /\ ~eg'.last.raised
          /\ eg'.last.ret = ok
          /\ After = IF ok THEN [e EXCEPT !.bot_x = t[1], !.bot_y = t[2]] ELSE e]_vars

\* On the Playground the bot stands on the elevator of height 0, faces the
\* light of height 4, and its JUMP was refused.
C22_Witness ==
  /\ level = 10
  /\ eg.last.op = "step"
  /\ eg.last.instruction = JUMP
  /\ ~eg.last.ret
  /\ BotCell(View(eg, "A")) = <<1, 0>>
  /\ GetTargetPosition(View(eg, "A")) = <<1, 1>>
  /\ View(eg, "A").map_data[<<1, 0>>].h = 0

\* C23: LIGHT on a light tile returns True and toggles that cell in the lit
\* set, so a second LIGHT there gives the lit set back; on an elevator it
\* returns True and sets the tile's height to (h + 2) mod 6; on any other
\* tile it returns False and changes nothing.  The position and the facing
\* stay as they were in all three cases.
C23_Light ==
  [][Stepped(LIGHT) =>
       LET e == Before
           pos == BotCell(e)
           kind == e.map_data[pos].t
           toggled == IF pos \in e.lights_on THEN e.lights_on \ {pos}
                                             ELSE e.lights_on \cup {pos}
           raised == (e.map_data[pos].h + 2) % 6
       IN /\ ~eg'.last.raised
          /\ BotCell(After) = pos
          /\ After.bot_dir = e.bot_dir
          /\ kind = TILE_LIGHT =>
               /\ eg'.last.ret
               /\ After = [e EXCEPT !.lights_on = toggled]
               /\ Step(Lv, After, LIGHT).eng.lights_on = e.lights_on
          /\ kind = TILE_ELEVATOR =>
               /\ eg'.last.ret
               /\ After = [e EXCEPT !.map_data[pos].h = raised,
                                    !.elevator_heights[pos] = raised]
          /\ kind \notin {TILE_LIGHT, TILE_ELEVATOR} =>
               /\ ~eg'.last.ret
               /\ After = e]_vars

\* A LIGHT switched off the lamp under the bot while the Playground's other
\* lamp stayed lit.
C23_Witness ==
  /\ level = 10
  /\ eg.last.op = "step"
  /\ eg.last.instruction = LIGHT
  /\ eg.last.ret
  /\ BotCell(View(eg, "A")) = <<1, 1>>
  /\ View(eg, "A").lights_on = {<<0, 1>>}

\* C24: TURN_LEFT and TURN_RIGHT return True and change the facing to
\* another of the four directions and nothing else; four TURN_LEFT in a row,
\* and four TURN_RIGHT in a row, give the facing back.
C24_Turns ==
  [][\A turn \in {TURN_LEFT, TURN_RIGHT} :
       Stepped(turn) =>
         LET e == Before
         IN /\ ~eg'.last.raised
            /\ eg'.last.ret
            /\ After.bot_dir \in (0..3) \ {e.bot_dir}
            /\ After = [e EXCEPT !.bot_dir = After.bot_dir]
            /\ RunSolutionLoop(Lv, e, <<turn, turn, turn, turn>>) = e]_vars

\* A TURN_RIGHT took the bot from direction 0 to direction 3.
C24_Witness ==
  /\ eg.last.op = "step"
  /\ eg.last.instruction = TURN_RIGHT
  /\ eg.last.ret
  /\ View(eg, "A").bot_dir = 3


\* C25: in every reachable state of every engine, is_solved() holds exactly
\* when every light cell of the level is in the lit set; the lit set holds
\* light cells only.
C25_SolvedIffAllLit ==
  \A n \in DOMAIN eg.eng :
    LET e == View(eg, n)
        lights == {c \in DOMAIN e.map_data : e.map_data[c].t = TILE_LIGHT}
    IN /\ e.lights_on \subseteq lights
       /\ IsSolved(Lv, e) <=> (lights \subseteq e.lights_on)

\* Both lamps of the Playground are lit, the second by the last call.
C25_Witness ==
  /\ level = 10
  /\ eg.last.op = "step"
  /\ eg.last.instruction = LIGHT
  /\ View(eg, "A").lights_on = {<<0, 1>>, <<1, 1>>}
  /\ IsSolved(Lv, View(eg, "A"))

\* C26: the bot's cell is always inside the grid: 0 <= x < map_width and
\* 0 <= y < map_height.
C26_BotInGrid ==
  \A n \in DOMAIN eg.eng :
    /\ 0 <= eg.eng[n].bot_x
    /\ eg.eng[n].bot_x < MapWidth(Lv)
    /\ 0 <= eg.eng[n].bot_y
    /\ eg.eng[n].bot_y < MapHeight(Lv)

\* In the far corner of the Playground, facing out of the grid from the
\* highest tile, the bot's JUMP was refused.
C26_Witness ==
  /\ level = 10
  /\ eg.last.op = "step"
  /\ eg.last.instruction = JUMP
  /\ ~eg.last.ret
  /\ BotCell(View(eg, "A")) = <<1, 1>>
  /\ ~FacesCell(View(eg, "A"))


\* C27: clone() gives an engine whose fields equal the source's and leaves
\* the source as it was; from then on a step() or reset() on one of the two
\* engines leaves the position, facing, lit set, tile heights and elevator
\* heights of the other unchanged.
C27_CloneIndependent ==
  [][/\ eg'.last.op = "clone" =>
          /\ View(eg', "B") = View(eg, "A")
          /\ View(eg', "A") = View(eg, "A")
     /\ \A n \in DOMAIN eg.eng :
          (eg'.last.op \in {"step", "reset"} /\ eg'.last.who # n)
            => View(eg', n) = View(eg, n)]_vars

\* On the Elevator level the source stands on the elevator at height 2 with
\* the lamp lit, the clone has raised its elevator to 4 and walked nowhere.
C27_Witness ==
  /\ level = 5
  /\ "B" \in DOMAIN eg.eng
  /\ View(eg, "A").elevator_heights[<<0, 1>>] = 2
  /\ View(eg, "B").elevator_heights[<<0, 1>>] = 4
  /\ View(eg, "A").lights_on = {<<0, 0>>}
  /\ View(eg, "B").lights_on = {}
  /\ BotCell(View(eg, "A")) = <<0, 1>>

\* C28: after a reset(), as after construction, the engine has the level's
\* start position and facing, an empty lit set and every tile, elevators
\* included, at the height the level gives it.
C28_ResetRestores ==
  eg.last.op \in {"new", "reset"} =>
    LET e == View(eg, eg.last.who)
    IN /\ BotCell(e) = Lv.position
       /\ e.bot_dir = Lv.direction
       /\ e.lights_on = {}
       /\ \A c \in Cells(Lv) :
            e.map_data[c] = Lv.map[MapHeight(Lv) - c[2]][c[1] + 1]
       /\ \A c \in DOMAIN e.elevator_heights :
            e.elevator_heights[c] = Lv.map[MapHeight(Lv) - c[2]][c[1] + 1].h
       /\ e = InitFromLevel(Lv)

\* The Playground's engine was reset with its elevator at height 4, the bot
\* on the far lamp and both lamps lit.
C28_Witness ==
  /\ level = 10
  /\ eg.last.op = "reset"
  /\ eg.last.was[1].map_data[<<1, 0>>].h = 4
  /\ BotCell(eg.last.was[1]) = <<1, 1>>
  /\ eg.last.was[1].lights_on = {<<0, 1>>, <<1, 1>>}

\* C29: two engines of one level have the same get_state_hash() exactly when
\* they agree on position, facing, lit set and every elevator height; and
\* when they do, is_solved() is the same on both and every value passed to
\* step() gives the same outcome and equal hashes again, so that by
\* induction every further sequence does.
C29_HashDecides ==
  ("B" \in DOMAIN eg.eng) =>
    LET a == View(eg, "A")
        b == View(eg, "B")
        same == /\ BotCell(a) = BotCell(b)
                /\ a.bot_dir = b.bot_dir
                /\ a.lights_on = b.lights_on
                /\ a.elevator_heights = b.elevator_heights
    IN /\ (GetStateHash(a) = GetStateHash(b)) <=> same
       /\ (GetStateHash(a) = GetStateHash(b)) =>
            /\ IsSolved(Lv, a) = IsSolved(Lv, b)
            /\ \A i \in StepInputs :
                 /\ Step(Lv, a, i).ret = Step(Lv, b, i).ret
                 /\ Step(Lv, a, i).raised = Step(Lv, b, i).raised
                 /\ GetStateHash(Step(Lv, a, i).eng) = GetStateHash(Step(Lv, b, i).eng)

\* Source and clone took different paths (the clone toggled its lamp twice
\* and raised its elevator three times) to the same hash.
C29_Witness ==
  /\ level = 5
  /\ "B" \in DOMAIN eg.eng
  /\ eg.last.who = "B"
  /\ eg.last.op = "step"
  /\ eg.last.instruction = TURN_LEFT
  /\ GetStateHash(View(eg, "A")) = GetStateHash(View(eg, "B"))
  /\ View(eg, "A").lights_on = {<<0, 0>>}
  /\ View(eg, "A").elevator_heights[<<0, 1>>] = 2

\* Two engines that differ in the elevator's height alone.
C29_ElevatorWitness ==
  /\ level = 5
  /\ "B" \in DOMAIN eg.eng
  /\ [View(eg, "A") EXCEPT !.map_data = 0, !.elevator_heights = 0]
       = [View(eg, "B") EXCEPT !.map_data = 0, !.elevator_heights = 0]
  /\ View(eg, "A").elevator_heights # View(eg, "B").elevator_heights

\* C30: step(v) with v none of the seven instructions raises and leaves
\* every field of the engine as it was; it does not return False.
C30_UnknownInstructionRaises ==
  [][(eg'.last.op = "step"
        /\ eg'.last.instruction \notin
             {WALK, JUMP, LIGHT, TURN_LEFT, TURN_RIGHT, PROC1, PROC2})
       => /\ eg'.last.raised
          /\ ~eg'.last.ret
          /\ After = Before]_vars

\* step(7) raised on the Playground's engine with the bot on the raised
\* elevator and a lamp lit.
C30_Witness ==
  /\ level = 10
  /\ eg.last.op = "step"
  /\ eg.last.instruction = 7
  /\ eg.last.raised
  /\ BotCell(View(eg, "A")) = <<1, 0>>
  /\ View(eg, "A").map_data[<<1, 0>>].h = 2
  /\ View(eg, "A").lights_on = {<<0, 1>>}


(***************************************************************************)
(* The visited sets of the flat solvers.                                   *)
(***************************************************************************)
\* The frames of the _dfs calls that have passed the cycle test and are in
\* their for loop: the states on the current path.
OnPath == {k \in 1..Len(ids.stack) : ids.stack[k].i >= 1}

\* C31: while a depth iteration of IDSSolver runs, visited holds exactly the
\* hashes of the states on the current DFS path, each once; between depth
\* iterations it is empty.
C31_VisitedIsPath ==
  /\ ids.pc = "dfs" =>
       /\ ids.visited = {GetStateHash(ids.stack[k].state) : k \in OnPath}
       /\ \A j, k \in OnPath :
            GetStateHash(ids.stack[j].state) = GetStateHash(ids.stack[k].state)
              => j = k
  /\ ids.pc = "iter" => ids.visited = {}

\* A state other than the start state, turned away earlier by the cycle
\* test, is expanded on the current path of the fourth or a later depth
\* iteration.
C31_Witness ==
  /\ ids.pc = "dfs"
  /\ ids.depth >= 4
  /\ Len(ids.stack) > 1
  /\ Top(ids.stack).i = 1
  /\ GetStateHash(Top(ids.stack).state) \in ids.pruned
  /\ GetStateHash(Top(ids.stack).state) # GetStateHash(InitFromLevel(Lv))


\* The number of (position, facing, lit set, elevator heights) combinations
\* of a level: no search can see more hashes than that.
StateSpaceSize(lv) ==
  Cardinality(Cells(lv)) * 4
    * Cardinality(SUBSET LightPositions(lv))
    * Cardinality([ElevatorPositions(lv) -> {0, 2, 4} \cup {lv.map[MapHeight(lv) - c[2]][c[1] + 1].h : c \in ElevatorPositions(lv)}])

NoRepeats(seq) == \A j, k \in 1..Len(seq) : seq[j] = seq[k] => j = k

NonDecreasing(seq) == \A j, k \in 1..Len(seq) : j <= k => seq[j] <= seq[k]

BfsVisitedOnce ==
  /\ NoRepeats(bfs.enqueued)
  /\ NoRepeats(bfs.expanded)
  /\ NonDecreasing(bfs.popped)
  /\ bfs.pc = "loop" =>
       /\ {bfs.enqueued[k] : k \in 1..Len(bfs.enqueued)} = bfs.visited
       /\ NonDecreasing([k \in 1..Len(bfs.queue) |-> Len(bfs.queue[k].instructions)])
       /\ \A k \in 1..Len(bfs.queue) :
            \A j \in 1..Len(bfs.popped) :
              bfs.popped[j] <= Len(bfs.queue[k].instructions)
  /\ Len(bfs.expanded) <= StateSpaceSize(Lv)
  /\ Len(bfs.popped) <= StateSpaceSize(Lv)

\* C32: BFSSolver never appends a state hash to its queue twice and never
\* tries the children of a state twice; it takes nodes off the queue in
\* non-decreasing order of sequence length; the number of nodes it takes
\* off is at most the number of states of the level, whatever
\* max_instructions is, and the search ends.
C32_BfsVisitedGlobal == []BfsVisitedOnce /\ <>(bfs.pc = "done")

\* On the Walled level the queue is empty, far below a max_instructions of
\* 1000, after every state that was queued has been expanded.
C32_Witness ==
  /\ level = 6
  /\ bfs.pc = "loop"
  /\ bfs.queue = <<>>
  /\ max_instructions = HugeMaxInstructions
  /\ Len(bfs.expanded) = Len(bfs.enqueued)
  /\ Len(bfs.expanded) > 1
  /\ bfs.popped[Len(bfs.popped)] < DefaultMaxInstructions


(***************************************************************************)
(* The programs the procedure solvers hand to the executor.                *)
(***************************************************************************)
\* The instruction occurs in MAIN, PROC1 or PROC2.
Occurs(instr, pr) == In(instr, pr.main) \/ In(instr, pr.proc1) \/ In(instr, pr.proc2)

\* The program calls a procedure that is empty.
CallsEmptyProcedure(pr) ==
  \/ pr.proc1 = <<>> /\ Occurs(PROC1, pr)
  \/ pr.proc2 = <<>> /\ Occurs(PROC2, pr)

\* No call of an empty procedure; and only primitives if both are empty.
CallsWhatExists(pr) ==
  /\ ~CallsEmptyProcedure(pr)
  /\ (pr.proc1 = <<>> /\ pr.proc2 = <<>>) =>
       \A i \in 1..Len(pr.main) : In(pr.main[i], BASIC_INSTRUCTIONS)

\* FastProcedureSolver tests the program its generators are at: none of
\* the "continue" statements of its loops applies.
FastTests ==
  /\ fs.pc = "search"
  /\ fs.stage # "main" => HasAction(FastProgram(fs).proc1)
  /\ fs.stage = "both" => HasAction(FastProgram(fs).proc2)
  /\ fs.stage = "p1" => In(PROC1, FastProgram(fs).main)
  /\ fs.stage = "both" =>
       In(PROC1, FastProgram(fs).main) \/ In(PROC2, FastProgram(fs).main)

\* C33: no program that ProcedureSolver, FastProcedureSolver or
\* ResumableProcedureSolver executes has a CALL_PROC1 anywhere while proc1
\* is empty, or a CALL_PROC2 anywhere while proc2 is empty; with both
\* procedures empty it consists of the five primitives.
C33_NoCallOfEmptyProcedure ==
  /\ (ps.pc = "search" /\ IsValidProgram(ProcAt)) => CallsWhatExists(ProcAt)
  /\ FastTests => CallsWhatExists(FastProgram(fs))
  /\ (rs.pc = "cand" /\ IsValidProgram(ResAt)) => CallsWhatExists(ResAt)
  /\ rs.executed # None => CallsWhatExists(rs.executed[1])

\* The fast solver is about to test MAIN=[PROC1, PROC1] with a PROC1 of one
\* instruction and PROC2 empty.
C33_Witness ==
  /\ FastTests
  /\ fs.stage = "p1"
  /\ FastProgram(fs).proc2 = <<>>
  /\ Len(FastProgram(fs).proc1) = 1
  /\ FastProgram(fs).main = <<PROC1, PROC1>>


(***************************************************************************)
(* The order of the size distributions of one total size.                  *)
(***************************************************************************)
\* proc1_size + proc2_size of a size distribution (main, p1, p2).
ProcSize(d) == d[2] + d[3]

\* No distribution that comes after the di-th has fewer procedure
\* instructions than the di-th.
FewerFirst(dists, di) ==
  \A j \in 1..Len(dists) : j > di => ProcSize(dists[j]) >= ProcSize(dists[di])

\* The index of the distribution d in a list that holds it once.
IndexOf(dists, d) == CHOOSE j \in 1..Len(dists) : dists[j] = d

\* The distributions of _search_size_fast in the order of its three parts:
\* _try_main_only, the loop of _try_with_proc1, the loops of
\* _try_with_both_procs.
FastDistributions(total_size) ==
  << <<total_size, 0, 0>> >>
    \o [m \in 1..(total_size - 1) |-> <<m, total_size - m, 0>>]
    \o SelectSeq(Distributions(total_size), LAMBDA d : d[2] >= 1 /\ d[3] >= 1)

\* C34: whenever one of the four procedure solvers stands at a candidate,
\* every size distribution of the same total size that it has still to try
\* has at least as many procedure instructions as the one it is at; so the
\* procedure-free programs of a size are tested before the others.
C34_FewerProcedureInstructionsFirst ==
  /\ ps.pc = "search" => FewerFirst(Distributions(ps.size), ps.di)
  /\ os.pc = "search" => FewerFirst(SortedDistributions(os.size), os.di)
  /\ fs.pc = "search" =>
       FewerFirst(FastDistributions(fs.size),
                  IndexOf(FastDistributions(fs.size),
                          <<fs.main_size, fs.p1_size, FastP2Size(fs)>>))
  /\ rs.pc = "cand" =>
       FewerFirst(ResDistributions(rs.current_size),
                  IndexOf(ResDistributions(rs.current_size),
                          <<rs.current_main_size, rs.current_p1_size,
                            rs.current_p2_size>>))

\* The part of C34 that the two solvers with a sorted list meet.
C34_SortedSolversFewerFirst ==
  /\ os.pc = "search" => FewerFirst(SortedDistributions(os.size), os.di)
  /\ rs.pc = "cand" =>
       FewerFirst(ResDistributions(rs.current_size),
                  IndexOf(ResDistributions(rs.current_size),
                          <<rs.current_main_size, rs.current_p1_size,
                            rs.current_p2_size>>))
  /\ fs.pc = "search" /\ fs.stage # "main" =>
       IndexOf(FastDistributions(fs.size), <<fs.size, 0, 0>>) = 1

\* ProcedureSolver tests a program of size 2 with a procedure while the
\* procedure-free programs of size 2 are still to come.
C34_ProcedureSolverProcsFirst ==
  /\ ps.pc = "search"
  /\ ps.size = 2
  /\ IsValidProgram(ProcAt)
  /\ ProcSize(Distributions(ps.size)[ps.di]) = 1
  /\ Distributions(ps.size)[Len(Distributions(ps.size))] = <<2, 0, 0>>
  /\ ps.di < Len(Distributions(ps.size))

\* FastProcedureSolver at size 3 is at (main 1, proc1 2) with (main 2,
\* proc1 1) still to come.
C34_FastLargerProcedureFirst ==
  /\ fs.pc = "search"
  /\ fs.size = 3
  /\ fs.stage = "p1"
  /\ <<fs.main_size, fs.p1_size>> = <<1, 2>>


(***************************************************************************)
(* The executor against its variants and its own earlier runs.             *)
(***************************************************************************)
\* C35: whenever OptimizedProcedureSolver hands a program to
\* _execute_with_state_check and that run is given up on a repeated state
\* hash, ProgramExecutor.execute with the same step budget does not solve
\* the level with that program.
C35_StatePruningSound ==
  (os.pc = "search" /\ IsValidProgram(OptAt)) =>
    (ExecuteWithStateCheck(Lv, OptAt, max_exec_steps).abandoned
       => ~Execute(Lv, OptAt, max_exec_steps).solved)

\* A run given up on a repeated hash of a program that does not solve the
\* level either way: the sound case.
C35_SoundCase ==
  /\ os.pc = "search"
  /\ IsValidProgram(OptAt)
  /\ ExecuteWithStateCheck(Lv, OptAt, max_exec_steps).abandoned
  /\ ~Execute(Lv, OptAt, max_exec_steps).solved
  /\ OptAt.proc1 = <<>> /\ OptAt.proc2 = <<>>


\* C36: whatever state the engine was in when execute(program) was called
\* (left by the caller's own steps or by an earlier execute of this or of
\* another program), the call returns the (solved, steps) that execute
\* returns on a new engine of the level; so two calls with the same program
\* return the same.
C36_ExecuteResetsFirst ==
  (ex.pc = "done") =>
    ex.result = Some(<<Execute(Lv, exec_program, max_exec_steps).solved,
                       Execute(Lv, exec_program, max_exec_steps).steps>>)

\* On Corridor2 execute was called with the engine turned and a lamp lit;
\* MAIN=[PROC1], PROC1=[WALK] took its two steps and did not solve.
C36_Witness ==
  /\ level = 3
  /\ ex.pc = "done"
  /\ ex.prior.lights_on # {}
  /\ ex.prior.bot_dir # Lv.direction
  /\ exec_program = Program(<<PROC1>>, <<WALK>>, <<>>)
  /\ ex.result = Some(<<FALSE, 2>>)


\* A budget well above every budget the executor is built with here.
ProbeMaxSteps == 20

\* Budgets from max_steps on: the next ones, and the large one.
LargerBudgets(max_steps) == (max_steps..(max_steps + 2)) \cup {ProbeMaxSteps}

RECURSIVE ExecLoop(_, _, _, _)
\* The while loop of execute from the executor state st to its return.
ExecLoop(lv, prog, st, max_steps) ==
  IF st.pc = "done" THEN st.result[1]
  ELSE IF ExecContinues(st.queue, st.steps, max_steps)
       THEN ExecLoop(lv, prog, ExecIter(lv, prog, st), max_steps)
       ELSE <<IsSolved(lv, st.eng), st.steps>>

\* execute(program) of an executor built with max_steps, on a new engine.
ExecRun(lv, prog, max_steps) ==
  ExecLoop(lv, prog, [ExecIdle(lv) EXCEPT !.pc = "loop", !.queue = prog.main],
           max_steps)

\* C37: if execute(program) returned (True, s) with budget B, then with
\* every budget B' >= B it returns the same (True, s).
C37_BudgetMonotone ==
  (ex.pc = "done" /\ ex.result[1][1]) =>
    \A b \in LargerBudgets(max_exec_steps) :
      ExecRun(Lv, exec_program, b) = ex.result[1]

\* What holds of it: with every budget B' >= B execute returns True, and
\* the same s unless B = 0 (where s = 0 is returned for a level that is
\* solved before the first step, and a larger budget counts the first step).
C37_BudgetMonotoneFromOne ==
  (ex.pc = "done" /\ ex.result[1][1]) =>
    \A b \in LargerBudgets(max_exec_steps) :
      /\ ExecRun(Lv, exec_program, b)[1]
      /\ max_exec_steps >= 1 => ExecRun(Lv, exec_program, b) = ex.result[1]

\* MAIN=[PROC1, LIGHT], PROC1=[WALK, LIGHT] solved OneStep with its third
\* step under a budget of exactly three; one more step would switch the
\* lamp off again.
C37_Witness ==
  /\ level = 1
  /\ max_exec_steps = 3
  /\ ex.pc = "done"
  /\ exec_program = Program(<<PROC1, LIGHT>>, <<WALK, LIGHT>>, <<>>)
  /\ ex.result = Some(<<TRUE, 3>>)

(***************************************************************************)
(* Chains of resumed sessions: where a session that times out leaves the   *)
(* search, and whether the chain comes to an end.                          *)
(***************************************************************************)
\* A session has returned timed out.
TimedOutSession == rs.pc = "returned" /\ rs.timed_out

\* A session has returned without timing out: with a solution, or with
\* every size up to max_size searched.
ReturnsForGood == rs.pc = "returned" /\ ~rs.timed_out

\* A session that returns timed out has executed at least one candidate.
EverySessionExecutes == TimedOutSession => audit.pos # None

\* The checkpoint of a session that timed out addresses a place that is not
\* before the place the session started from, and a later one when the
\* session executed a candidate.
CheckpointNotEarlier ==
  TimedOutSession =>
    /\ ckpt # None
    /\ ~PosLess(CheckpointPos(ckpt[1]), audit.started[1])
    /\ audit.pos # None => PosLess(audit.started[1], CheckpointPos(ckpt[1]))

\* C38: when solve(resume=True) is called again and again on one level with
\* the same max_size and every session executes at least one candidate
\* before its deadline, a session eventually returns without timing out;
\* and a session that times out leaves a checkpoint whose place is never
\* earlier in the enumeration than the place the session started from.
C38_ResumedSearchProgress ==
  /\ []CheckpointNotEarlier
  /\ ([]EverySessionExecutes) => <>ReturnsForGood

\* A session resumed from a checkpoint past the first size executed the
\* candidates of a whole distribution and timed out in its turn at the
\* start of a distribution with both procedures, further on in the
\* enumeration.
C38_Witness ==
  /\ TimedOutSession
  /\ rs.initially_resumed
  /\ audit.pos # None
  /\ audit.started # None
  /\ audit.started[1][1] > 1
  /\ PosLess(audit.started[1], CheckpointPos(ckpt[1]))
  /\ ckpt[1].current_p1_size > 0
  /\ ckpt[1].current_p2_size > 0


=============================================================================
